---------------------------- MODULE Spec2Model ----------------------------
(***************************************************************************)
(* Verification model of the mayastor control plane: the etcd store with   *)
(* its lease lock, the per-spec operation sequencer, the PoolSpec          *)
(* transaction log, the operation executor and the REST nexus delete path. *)
(***************************************************************************)
EXTENDS Naturals, Integers, Sequences, FiniteSets, TLC

(***************************************************************************)
(* Bounds of the model.                                                    *)
(***************************************************************************)
\* number of lease ids etcd hands out in one run
MaxLease == 2
\* corrective calls nexus_reconciler issues for one nexus in one poll
MaxSteps == 1
\* crashes and restarts of the core agent in one run
MaxBoots == 1
\* reconcile passes over one nexus in one run
MaxPasses == 3
\* passes within which a nexus is to be reconciled
ConvergePasses == 2

\* the control-plane writers created with Etcd::new_leased (same lock key)
Writers == {"w1", "w2"}
\* a client created with Etcd::new (no lease lock info)
Unleased == {"u"}
Clients == Writers \cup Unleased
\* data keys of the store
Keys == {"k1", "k2"}
NoVal == "missing"
StoreOps == {"put_kv", "put_obj", "delete_kv"}
NoLease == 0

VARIABLES
    \* ---- etcd (src/common/src/store/etcd.rs) ----
    kv,          \* key -> value stored (NoVal: no entry)
    lockLease,   \* lease id attached to the lock key (NoLease: key absent)
    leases,      \* lease ids alive at etcd
    nextLease,   \* next lease id etcd grants
    owner,       \* lease id -> writer it was granted to
    leaseInfo,   \* client -> its Etcd.lease_lock_info
    call,        \* client -> the store call in flight
    res,         \* client -> result of its last store call
    \* ---- operation sequencer, tasks and NexusReconciler::poll ----
    seq,         \* resource -> state of its spec's OperationSequence
    nexus,       \* nexus id -> the NexusSpec fields poll reads
    task,        \* task -> the guard it holds or asked for
    poll,        \* NexusReconciler::poll: position, guard held, results
    \* ---- PoolSpec p0 (src/common/src/types/v0/store/pool.rs), executor ----
    pool,        \* the registry's entry for pool p0
    stored,      \* the entry persisted in the store
    exec,        \* executor task -> position in its operation, last reply
    inflight,    \* the operation under way and the spec it started from
    boots,       \* restarts of the core agent so far
    \* ---- REST nexus delete (rest/service/src/v0/nexuses.rs) ----
    nexusNode,   \* nexus id -> node it lives on (NoNode: no such nexus)
    rest,        \* destroy_nexus: position, request built, result
    \* ---- nexus_reconciler on one nexus (core/reconciler/nexus/mod.rs) ----
    nspec,       \* the registry's NexusSpec: created, children, share
    nstate,      \* the nexus state the registry observed on the node
    nodeStatus,  \* status of the nexus's node in the registry
    sched,       \* nexus info and the replicas the scheduler collects
    rec,         \* nexus_reconciler: position, sub-reconcilers run, results
    rlog,        \* the calls issued in the current pass
    \* ---- watch on a store key (src/common/src/store/etcd.rs) ----
    whist,       \* the events of the key at the store, in store order
    wpacked,     \* how many of them etcd has put on the watch stream
    wresp,       \* the watch responses on the stream, not yet read
    wchan,       \* what the watch task has sent on the channel, in order
    wopen,       \* the receiver of the channel is still there
    wpc,         \* the watch task: watching or stopped
    \* ---- conversions (src/common/src/types/mod.rs) ----
    creply,      \* the ReplyError last converted
    chttp,       \* the RestError it was converted to
    cchan,       \* the Channel last written to the wire
    cwire,       \* the string on the wire
    cparsed,     \* the result of Channel::from_str on the wire string
    \* ---- gRPC conversions (grpc/src/operations/replica/traits.rs) ----
    gspec,       \* the ReplicaSpec last converted to its gRPC message
    gmsg,        \* the replica::ReplicaSpec message on the wire
    gback,       \* the result of ReplicaSpec::try_from on the message
    \* ---- disk pool operator (src/k8s/operators/src/diskpool/main.rs) ----
    dcr,         \* the DiskPool CR at the k8s API server
    dinv,        \* the operator's inventory entry for the CR
    dop          \* the last reconcile: what it saw, called and returned

storeVars == <<kv, lockLease, leases, nextLease, owner, leaseInfo, call, res>>
seqVars == <<seq, nexus, task, poll>>
txnVars == <<pool, stored, exec, inflight, boots>>
restVars == <<nexusNode, rest>>
recVars == <<nspec, nstate, nodeStatus, sched, rec, rlog>>

watchVars == <<whist, wpacked, wresp, wchan, wopen, wpc>>
grpcVars == <<gspec, gmsg, gback>>
convVars == <<creply, chttp, cchan, cwire, cparsed, grpcVars>>
dpVars == <<dcr, dinv, dop>>
\* the parts of the control plane proper, and the parts around it
coreVars == <<storeVars, seqVars, txnVars, restVars, recVars>>
edgeVars == <<watchVars, convVars, dpVars>>

vars == <<coreVars, edgeVars>>

(***************************************************************************)
(* Store: Etcd client and lease lock                                       *)
(***************************************************************************)
NoInfo == [some |-> FALSE, id |-> NoLease, active |-> FALSE]
NoCall == [pc |-> "idle", op |-> "none", key |-> "none", lease |-> NoLease]

\* Etcd::new returns a client at once; Etcd::new_leased returns it once
\* EtcdSingletonLock::start has obtained the first lease
Constructed(c) == leaseInfo[c].some => leaseInfo[c].id # NoLease

\* LeaseLockInfo::lease_lock of the lease keeper: the pair while the lease is
\* active, NotReady otherwise
LeaseInfoLeaseLock(info) ==
    IF info.active THEN [ok |-> TRUE, some |-> TRUE, lease |-> info.id]
    ELSE [ok |-> FALSE, some |-> FALSE, lease |-> NoLease]

\* a lease_lock that hands out the pair of an inactive lease
LeaseLockStale(c) ==
    IF leaseInfo[c].some
    THEN [ok |-> TRUE, some |-> TRUE, lease |-> leaseInfo[c].id]
    ELSE [ok |-> TRUE, some |-> FALSE, lease |-> NoLease]

\* Etcd::lease_lock
lease_lock(c) ==
    IF ~leaseInfo[c].some
    THEN [ok |-> TRUE, some |-> FALSE, lease |-> NoLease]
    ELSE LeaseInfoLeaseLock(leaseInfo[c])

\* a transaction with no comparison
TxnNoCompare(c) == TRUE

\* Txn::new().when([Compare::lease(lock_key, Equal, lease_id)])
TxnCompare(c) == lockLease = call[c].lease

\* TxnOp::put / TxnOp::delete / client.put / client.delete on the key space
ApplyOp(c, op, k) ==
    IF op = "delete_kv"
    THEN [kv EXCEPT ![k] = NoVal]
    ELSE [kv EXCEPT ![k] = c]

\* a result mapping that ignores resp.succeeded()
TxnResultAlwaysOk(succeeded) == "Ok"

\* if !resp.succeeded() { return Err(StoreError::FailedLock) } ... Ok(())
TxnResult(succeeded) == IF succeeded THEN "Ok" ELSE "FailedLock"

\* put_kv / put_obj / delete_kv up to the first await: lease_lock()?, then
\* the transaction is sent; without lease lock info the plain put / delete
\* (which reads no lease state) is done at once
StoreCall(c, op, k) ==
    /\ call[c].pc = "idle"
    /\ Constructed(c)
    /\ LET ll == lease_lock(c) IN
        IF ~ll.ok
        THEN /\ res' = [res EXCEPT ![c] = "NotReady"]
             /\ UNCHANGED <<call, kv>>
        ELSE IF ll.some
        THEN /\ res' = [res EXCEPT ![c] = "none"]
             /\ call' = [call EXCEPT ![c] =
                    [pc |-> "txn", op |-> op, key |-> k, lease |-> ll.lease]]
             /\ kv' = kv
        ELSE /\ kv' = ApplyOp(c, op, k)
             /\ res' = [res EXCEPT ![c] = "Ok"]
             /\ call' = call
    /\ UNCHANGED <<lockLease, leases, nextLease, owner, leaseInfo>>
    /\ UNCHANGED <<seqVars, txnVars, restVars, recVars, edgeVars>>

\* the transaction at etcd and the call's return
StoreTxn(c) ==
    /\ call[c].pc = "txn"
    /\ LET succeeded == TxnCompare(c) IN
        /\ kv' = IF succeeded THEN ApplyOp(c, call[c].op, call[c].key) ELSE kv
        /\ res' = [res EXCEPT ![c] = TxnResult(succeeded)]
    /\ call' = [call EXCEPT ![c] = NoCall]
    /\ UNCHANGED <<lockLease, leases, nextLease, owner, leaseInfo>>
    /\ UNCHANGED <<seqVars, txnVars, restVars, recVars, edgeVars>>

\* EtcdSingletonLock::start: grant a lease, create the lock key with the lease
\* attached if the key does not exist
LeaseStart(w) ==
    /\ ~leaseInfo[w].active
    /\ lockLease = NoLease
    /\ nextLease <= MaxLease
    /\ leases' = leases \cup {nextLease}
    /\ lockLease' = nextLease
    /\ owner' = [owner EXCEPT ![nextLease] = w]
    /\ leaseInfo' = [leaseInfo EXCEPT ![w] =
            [some |-> TRUE, id |-> nextLease, active |-> TRUE]]
    /\ nextLease' = nextLease + 1
    /\ UNCHANGED <<kv, call, res>>
    /\ UNCHANGED <<seqVars, txnVars, restVars, recVars, edgeVars>>

\* etcd drops a lease whose keep-alive did not arrive in time, or that was
\* revoked: the keys attached to it go with it
LeaseExpire(l) ==
    /\ l \in leases
    /\ leases' = leases \ {l}
    /\ lockLease' = IF lockLease = l THEN NoLease ELSE lockLease
    /\ UNCHANGED <<kv, nextLease, owner, leaseInfo, call, res>>
    /\ UNCHANGED <<seqVars, txnVars, restVars, recVars, edgeVars>>

\* the keep-alive task finds the lease gone and marks it lost
KeepAliveLost(w) ==
    /\ leaseInfo[w].active
    /\ leaseInfo[w].id \notin leases
    /\ leaseInfo' = [leaseInfo EXCEPT ![w].active = FALSE]
    /\ UNCHANGED <<kv, lockLease, leases, nextLease, owner, call, res>>
    /\ UNCHANGED <<seqVars, txnVars, restVars, recVars, edgeVars>>

\* Etcd::revoke: revokes the lease and releases the associated lock
Revoke(w) ==
    /\ leaseInfo[w].active
    /\ leases' = leases \ {leaseInfo[w].id}
    /\ lockLease' = IF lockLease = leaseInfo[w].id THEN NoLease ELSE lockLease
    /\ leaseInfo' = [leaseInfo EXCEPT ![w].active = FALSE]
    /\ UNCHANGED <<kv, nextLease, owner, call, res>>
    /\ UNCHANGED <<seqVars, txnVars, restVars, recVars, edgeVars>>

(***************************************************************************)
(* Operation sequencer, guard holders and NexusReconciler::poll            *)
(***************************************************************************)
\* registry order of context.specs().get_nexuses()
NexusList == <<"x1", "x2">>
Nexuses == {"x1", "x2"}
\* specs with a sequencer of their own: the nexuses and the pool
Resources == Nexuses \cup {"p0"}
\* writers, readers and other reconcilers asking for a guard
Tasks == {"t1", "t2"}
Modes == {"Exclusive", "ReconcileStart", "ReconcileStep", "Shared"}

\* the nexus specs poll tells apart: reconciled (Created or not), not
\* managed, owned by a volume
NexusKinds ==
    {[managed |-> TRUE, owned |-> FALSE, created |-> TRUE],
     [managed |-> TRUE, owned |-> FALSE, created |-> FALSE],
     [managed |-> FALSE, owned |-> FALSE, created |-> TRUE],
     [managed |-> TRUE, owned |-> TRUE, created |-> TRUE]}

SeqIdle == [state |-> "Idle", n |-> 0, nested |-> FALSE, opid |-> "none"]

\* OperationSequence: the acquisition matrix; ReconcileStep is re-entrant
\* under the ReconcileStart of the same owner
SeqAllowed(s, mode, who) ==
    CASE mode = "Exclusive" -> s.state = "Idle"
      [] mode = "ReconcileStart" -> s.state = "Idle"
      [] mode = "ReconcileStep" ->
            \/ s.state = "Idle"
            \/ s.state = "Reconciling" /\ s.opid = who
      [] mode = "Shared" -> s.state \in {"Idle", "Shared"}

\* OperationSequence: the state a granted request leads to
SeqAcquire(s, mode, who) ==
    CASE mode = "Exclusive" ->
            [state |-> "Exclusive", n |-> 0, nested |-> FALSE, opid |-> who]
      [] mode = "ReconcileStart" ->
            [state |-> "Reconciling", n |-> 0, nested |-> FALSE, opid |-> who]
      [] mode = "ReconcileStep" ->
            [state |-> "ReconcileStep", n |-> 0,
             nested |-> (s.state = "Reconciling"), opid |-> who]
      [] mode = "Shared" ->
            [state |-> "Shared", n |-> s.n + 1, nested |-> FALSE,
             opid |-> "none"]

\* OperationSequence: dropping a guard
SeqRelease(s, mode) ==
    CASE mode = "Shared" ->
            IF s.n > 1 THEN [s EXCEPT !.n = s.n - 1] ELSE SeqIdle
      [] mode = "ReconcileStep" ->
            IF s.nested
            THEN [state |-> "Reconciling", n |-> 0, nested |-> FALSE,
                  opid |-> s.opid]
            ELSE SeqIdle
      [] OTHER -> SeqIdle

\* impl OperationSequencer for PoolSpec: as_ref / as_mut hand out the spec's
\* own sequencer field
SequencerOf(r) == seq[r]

NoTask == [pc |-> "idle", r |-> "none", mode |-> "none", ret |-> "none"]
NoPoll == [pc |-> "idle", idx |-> 1, guard |-> "none", sub |-> 0,
           step |-> FALSE, err |-> FALSE, ret |-> "none",
           reconciled |-> <<>>, gc |-> "none"]

\* a task asks for a guard on resource r: granted, or Busy at once
TaskAcquire(t, r, mode) ==
    /\ task[t].pc = "idle"
    /\ IF SeqAllowed(SequencerOf(r), mode, t)
       THEN /\ seq' = [seq EXCEPT ![r] = SeqAcquire(seq[r], mode, t)]
            /\ task' = [task EXCEPT ![t] =
                    [pc |-> "holding", r |-> r, mode |-> mode, ret |-> "Ok"]]
       ELSE /\ seq' = seq
            /\ task' = [task EXCEPT ![t] = [NoTask EXCEPT !.ret = "Busy"]]
    /\ UNCHANGED <<nexus, poll>>
    /\ UNCHANGED <<storeVars, txnVars, restVars, recVars, edgeVars>>

\* a task drops its guard
TaskRelease(t) ==
    /\ task[t].pc = "holding"
    /\ seq' = [seq EXCEPT ![task[t].r] = SeqRelease(seq[task[t].r], task[t].mode)]
    /\ task' = [task EXCEPT ![t] = NoTask]
    /\ UNCHANGED <<nexus, poll>>
    /\ UNCHANGED <<storeVars, txnVars, restVars, recVars, edgeVars>>

\* poll is called by the reconcile scheduler
PollStart ==
    /\ poll.pc \in {"idle", "done"}
    /\ poll' = [NoPoll EXCEPT !.pc = "loop"]
    /\ UNCHANGED <<seq, nexus, task>>
    /\ UNCHANGED <<storeVars, txnVars, restVars, recVars, edgeVars>>

\* a guard request that never fails
PollGuardAlwaysOk(x) == TRUE

\* match nexus.operation_guard(OperationMode::ReconcileStart) { Ok(guard) .. }
PollGuardOk(x) == SeqAllowed(SequencerOf(x), "ReconcileStart", "poll")

\* a poll that skips the busy nexus and carries on
PollOnGuardErrContinue == "continue"

\* a poll that leaves the busy nexus out and reconciles the next one
PollOnGuardErrSkip == "skip"

\* Err(_) => return PollResult::Ok(PollerState::Busy)
PollOnGuardErr == "return"

\* squash_results: the first error, else Busy if any, else Idle
squash_results(err, busy) ==
    IF err THEN "Err" ELSE IF busy THEN "Busy" ELSE "Idle"

\* an early return that squashes the results pushed so far with Busy
PollBusyReturnSquashed(err) == squash_results(err, TRUE)

\* return PollResult::Ok(PollerState::Busy): the results vector is dropped
PollBusyReturn(err) == "Busy"

\* one iteration of `for nexus in context.specs().get_nexuses()` up to the
\* await of nexus_reconciler, or the end of the loop
PollNext ==
    /\ poll.pc = "loop"
    /\ IF poll.idx > Len(NexusList)
       THEN /\ poll' = [poll EXCEPT !.pc = "targets"]
            /\ seq' = seq
       ELSE LET x == NexusList[poll.idx] IN
            IF ~nexus[x].managed \/ nexus[x].owned
            THEN /\ poll' = [poll EXCEPT !.idx = poll.idx + 1]
                 /\ seq' = seq
            ELSE IF PollGuardOk(x)
            THEN /\ seq' = [seq EXCEPT ![x] = SeqAcquire(seq[x], "ReconcileStart", "poll")]
                 /\ poll' = [poll EXCEPT !.pc = "reconcile", !.guard = x,
                                         !.sub = 0]
            ELSE IF PollOnGuardErr = "return"
            THEN /\ poll' = [poll EXCEPT !.pc = "done",
                                         !.ret = PollBusyReturn(poll.err)]
                 /\ seq' = seq
            ELSE /\ poll' = [poll EXCEPT !.idx = poll.idx + 1]
                 /\ seq' = seq
    /\ UNCHANGED <<nexus, task>>
    /\ UNCHANGED <<storeVars, txnVars, restVars, recVars, edgeVars>>

\* nexus_reconciler: a sub-reconciler starts a corrective call, which asks
\* for ReconcileStep under the ReconcileStart guard poll holds
ReconcileStepBegin ==
    /\ poll.pc = "reconcile"
    /\ ~poll.step
    /\ nexus[poll.guard].created
    /\ poll.sub < MaxSteps
    /\ SeqAllowed(SequencerOf(poll.guard), "ReconcileStep", "poll")
    /\ seq' = [seq EXCEPT ![poll.guard] = SeqAcquire(seq[poll.guard],
                                                "ReconcileStep", "poll")]
    /\ poll' = [poll EXCEPT !.step = TRUE, !.sub = poll.sub + 1]
    /\ UNCHANGED <<nexus, task>>
    /\ UNCHANGED <<storeVars, txnVars, restVars, recVars, edgeVars>>

\* the corrective call returns and drops its ReconcileStep guard
ReconcileStepEnd(failed) ==
    /\ poll.pc = "reconcile"
    /\ poll.step
    /\ seq' = [seq EXCEPT ![poll.guard] = SeqRelease(seq[poll.guard], "ReconcileStep")]
    /\ poll' = [poll EXCEPT !.step = FALSE, !.err = poll.err \/ failed]
    /\ UNCHANGED <<nexus, task>>
    /\ UNCHANGED <<storeVars, txnVars, restVars, recVars, edgeVars>>

\* a loop body whose guard outlives it
KeepReconcileGuard(s) == s

\* `let _guard = ..`: the guard lives to the end of the loop body and is
\* dropped there
DropReconcileGuard(s) == SeqRelease(s, "ReconcileStart")

\* nexus_reconciler returns, its result is pushed and _guard is dropped at the
\* end of the loop body
PollReconciled ==
    /\ poll.pc = "reconcile"
    /\ ~poll.step
    /\ seq' = [seq EXCEPT ![poll.guard] = DropReconcileGuard(seq[poll.guard])]
    /\ poll' = [poll EXCEPT !.pc = "loop", !.idx = poll.idx + 1,
                            !.guard = "none", !.sub = 0,
                            !.reconciled = Append(poll.reconciled, poll.guard)]
    /\ UNCHANGED <<nexus, task>>
    /\ UNCHANGED <<storeVars, txnVars, restVars, recVars, edgeVars>>

\* for target in poll_targets: the garbage collector's try_poll, then
\* Self::squash_results(results)
PollTargets(gc) ==
    /\ poll.pc = "targets"
    /\ poll' = [poll EXCEPT !.pc = "done", !.gc = gc,
            !.ret = squash_results(poll.err \/ gc = "Err", gc = "Busy")]
    /\ UNCHANGED <<seq, nexus, task>>
    /\ UNCHANGED <<storeVars, txnVars, restVars, recVars, edgeVars>>

(***************************************************************************)
(* PoolSpec: creation from a request, comparison, operation log            *)
(***************************************************************************)
PoolNodes == {"n0", "n1"}
PoolDisks == {"aio:///dev/null", "malloc:///disk"}
PoolLabels == {"None", "openebs.io/created-by"}
\* the CreatePool requests for pool p0
CreatePoolRequests ==
    [node : PoolNodes, id : {"p0"}, disks : PoolDisks, labels : PoolLabels]
PoolOperation == {"Create", "Destroy"}

NoOperation == [some |-> FALSE, operation |-> "none", result |-> "None"]
Creating == [kind |-> "Creating", sub |-> "none"]
CreatedOnline == [kind |-> "Created", sub |-> "Online"]
Deleting == [kind |-> "Deleting", sub |-> "none"]
Deleted == [kind |-> "Deleted", sub |-> "none"]

\* impl From<&CreatePool> for PoolSpec (the sequencer is seq["p0"])
PoolSpecFrom(request) ==
    [node |-> request.node, id |-> request.id, disks |-> request.disks,
     status |-> Creating, labels |-> request.labels,
     operation |-> NoOperation]

\* a comparison that looks at the id alone
PoolSpecEqIdOnly(self, other) == self.id = other.id

\* impl PartialEq<CreatePool> for PoolSpec
PoolSpecEqCreatePool(self, other) ==
    LET o == [PoolSpecFrom(other) EXCEPT !.status = self.status]
    IN  o = self

\* a pending_op that never sees the operation
PendingOpNever(spec) == FALSE

\* SpecTransaction::pending_op
pending_op(spec) == spec.operation.some

\* a clear_op that leaves the record in place
ClearOpNoop(spec) == spec

\* SpecTransaction::clear_op
clear_op(spec) == [spec EXCEPT !.operation = NoOperation]

\* a commit_op that sets the status and leaves the operation in place
CommitOpKeepsOperation(spec) ==
    IF spec.operation.some
    THEN IF spec.operation.operation = "Destroy"
         THEN [spec EXCEPT !.status = [kind |-> "Deleted", sub |-> "none"]]
         ELSE [spec EXCEPT !.status = [kind |-> "Created", sub |-> "Online"]]
    ELSE spec

\* SpecTransaction::commit_op
commit_op(spec) ==
    clear_op(IF spec.operation.some
             THEN IF spec.operation.operation = "Destroy"
                  THEN [spec EXCEPT !.status = Deleted]
                  ELSE [spec EXCEPT !.status = CreatedOnline]
             ELSE spec)

\* SpecTransaction::start_op
start_op(spec, operation) ==
    [spec EXCEPT !.operation =
        [some |-> TRUE, operation |-> operation, result |-> "None"]]

\* SpecTransaction::set_op_result
set_op_result(spec, result) ==
    IF spec.operation.some
    THEN [spec EXCEPT !.operation.result = IF result THEN "true" ELSE "false"]
    ELSE spec

NoSpec ==
    [node |-> "none", id |-> "none", disks |-> "none", status |-> Deleted,
     labels |-> "None", operation |-> NoOperation]
NoPool == [exists |-> FALSE, spec |-> NoSpec]
\* no request (a destroy carries the id alone)
NoRequest == [node |-> "none", id |-> "p0", disks |-> "none", labels |-> "None"]
\* an executor task: where it is, the operation it started, the create
\* request it serves, its reply
NoExec == [pc |-> "idle", op |-> "none", req |-> NoRequest, reply |-> "none"]
NoInflight == [active |-> FALSE, op |-> "none", pre |-> NoSpec]

\* the trait methods applied to the spec held in the registry
TxnStartOp(operation) ==
    /\ pool.exists
    /\ pool' = [pool EXCEPT !.spec = start_op(pool.spec, operation)]
    /\ UNCHANGED <<stored, exec, inflight, boots>>
    /\ UNCHANGED <<storeVars, seqVars, restVars, recVars, edgeVars>>

TxnSetOpResult(result) ==
    /\ pool.exists
    /\ pool' = [pool EXCEPT !.spec = set_op_result(pool.spec, result)]
    /\ UNCHANGED <<stored, exec, inflight, boots>>
    /\ UNCHANGED <<storeVars, seqVars, restVars, recVars, edgeVars>>

TxnCommitOp ==
    /\ pool.exists
    /\ pool' = [pool EXCEPT !.spec = commit_op(pool.spec)]
    /\ UNCHANGED <<stored, exec, inflight, boots>>
    /\ UNCHANGED <<storeVars, seqVars, restVars, recVars, edgeVars>>

TxnClearOp ==
    /\ pool.exists
    /\ pool' = [pool EXCEPT !.spec = clear_op(pool.spec)]
    /\ UNCHANGED <<stored, exec, inflight, boots>>
    /\ UNCHANGED <<storeVars, seqVars, restVars, recVars, edgeVars>>

(***************************************************************************)
(* Operation executor on the pool spec, with crash and startup replay      *)
(***************************************************************************)
Executors == {"e1", "e2"}
\* the create requests clients send: one, and those differing from it in
\* exactly one of node, disks, labels
ExecRequests ==
    LET base == [node |-> "n0", id |-> "p0", disks |-> "aio:///dev/null",
                 labels |-> "None"] IN
    {request \in CreatePoolRequests :
        Cardinality({f \in {"node", "disks", "labels"} :
                        request[f] # base[f]}) <= 1}

PoolSeqFree(e) == SeqAllowed(SequencerOf("p0"), "Exclusive", e)

\* the pending operation is recorded and persisted; the data-plane call starts
ExecBegin(e, request, spec, operation) ==
    /\ pool' = [exists |-> TRUE, spec |-> start_op(spec, operation)]
    /\ stored' = pool'
    /\ seq' = [seq EXCEPT !["p0"] = SeqAcquire(seq["p0"], "Exclusive", e)]
    /\ exec' = [exec EXCEPT ![e] =
            [pc |-> "call", op |-> operation, req |-> request,
             reply |-> "none"]]
    /\ inflight' = [active |-> TRUE, op |-> operation, pre |-> spec]

\* the request is answered without touching the spec
ExecReply(e, request, reply) ==
    /\ exec' = [exec EXCEPT ![e] =
            [NoExec EXCEPT !.req = request, !.reply = reply]]
    /\ UNCHANGED <<pool, stored, seq, inflight>>

\* create: a new spec is allocated as Creating; an existing one is compared
\* with the request
ExecCreate(e, request) ==
    /\ exec[e].pc = "idle"
    /\ IF ~pool.exists
       THEN ExecBegin(e, request, PoolSpecFrom(request), "Create")
       ELSE IF ~PoolSeqFree(e) THEN ExecReply(e, request, "Busy")
       ELSE IF pending_op(pool.spec) THEN ExecReply(e, request, "Conflict")
       ELSE IF PoolSpecEqCreatePool(pool.spec, request)
       THEN ExecReply(e, request, "Ok")
       ELSE ExecReply(e, request, "AlreadyExists")
    /\ UNCHANGED <<boots, nexus, task, poll>>
    /\ UNCHANGED <<storeVars, restVars, recVars, edgeVars>>

\* destroy: of a spec that does not exist it succeeds at once
ExecDestroy(e) ==
    /\ exec[e].pc = "idle"
    /\ IF ~pool.exists THEN ExecReply(e, NoRequest, "Ok")
       ELSE IF ~PoolSeqFree(e) THEN ExecReply(e, NoRequest, "Busy")
       ELSE IF pending_op(pool.spec) THEN ExecReply(e, NoRequest, "Conflict")
       ELSE ExecBegin(e, NoRequest, pool.spec, "Destroy")
    /\ UNCHANGED <<boots, nexus, task, poll>>
    /\ UNCHANGED <<storeVars, restVars, recVars, edgeVars>>

\* the data-plane call returns: its result is written into the pending
\* operation and persisted
ExecCall(e, ok) ==
    /\ exec[e].pc = "call"
    /\ pool' = [pool EXCEPT !.spec = set_op_result(pool.spec, ok)]
    /\ stored' = pool'
    /\ exec' = [exec EXCEPT ![e].pc = "result"]
    /\ UNCHANGED <<seq, inflight, boots, nexus, task, poll>>
    /\ UNCHANGED <<storeVars, restVars, recVars, edgeVars>>

\* the request's deadline expires while the data-plane call is in flight
ExecDeadline(e) ==
    /\ exec[e].pc = "call"
    /\ exec' = [exec EXCEPT ![e].pc = "detached",
                            ![e].reply = "DeadlineExceeded"]
    /\ UNCHANGED <<pool, stored, seq, inflight, boots, nexus, task, poll>>
    /\ UNCHANGED <<storeVars, restVars, recVars, edgeVars>>

\* the call of an expired request finishes: its result is recorded in the
\* pending operation for a later retry or reconciler, the guard is dropped
ExecCallDetached(e, ok) ==
    /\ exec[e].pc = "detached"
    /\ pool' = [pool EXCEPT !.spec = set_op_result(pool.spec, ok)]
    /\ stored' = pool'
    /\ seq' = [seq EXCEPT !["p0"] = SeqRelease(seq["p0"], "Exclusive")]
    /\ exec' = [exec EXCEPT ![e].pc = "idle"]
    /\ UNCHANGED <<inflight, boots, nexus, task, poll>>
    /\ UNCHANGED <<storeVars, restVars, recVars, edgeVars>>

\* the operation is committed (result true) or cleared, and persisted; a
\* committed destroy and a failed create go on to remove the spec
ExecComplete(e) ==
    /\ exec[e].pc = "result"
    /\ LET ok == pool.spec.operation.result = "true"
           remove == (ok /\ exec[e].op = "Destroy")
                        \/ (~ok /\ exec[e].op = "Create") IN
        /\ pool' = [pool EXCEPT !.spec =
                IF ok THEN commit_op(pool.spec) ELSE clear_op(pool.spec)]
        /\ stored' = pool'
        /\ exec' = [exec EXCEPT ![e].pc = IF remove THEN "remove" ELSE "idle",
                                ![e].reply = IF ok THEN "Ok" ELSE "Failed"]
        /\ seq' = IF remove THEN seq
                  ELSE [seq EXCEPT !["p0"] = SeqRelease(seq["p0"], "Exclusive")]
        /\ inflight' = IF remove THEN inflight ELSE NoInflight
    /\ UNCHANGED <<boots, nexus, task, poll>>
    /\ UNCHANGED <<storeVars, restVars, recVars, edgeVars>>

\* the spec is deleted from the store and the registry
ExecRemove(e) ==
    /\ exec[e].pc = "remove"
    /\ pool' = NoPool
    /\ stored' = NoPool
    /\ seq' = [seq EXCEPT !["p0"] = SeqIdle]
    /\ exec' = [exec EXCEPT ![e].pc = "idle"]
    /\ inflight' = NoInflight
    /\ UNCHANGED <<boots, nexus, task, poll>>
    /\ UNCHANGED <<storeVars, restVars, recVars, edgeVars>>

\* load_all: a spec loaded with a lingering operation is committed if its
\* result is true and cleared otherwise
Replay(entry) ==
    IF ~entry.exists THEN entry
    ELSE IF entry.spec.operation.result = "true"
    THEN [entry EXCEPT !.spec = commit_op(entry.spec)]
    ELSE [entry EXCEPT !.spec = clear_op(entry.spec)]

\* the process crashes and restarts: tasks and sequencers are gone, the
\* registry is rebuilt from the store; inflight keeps what was under way
CrashRestart ==
    /\ boots < MaxBoots
    /\ boots' = boots + 1
    /\ pool' = Replay(stored)
    /\ stored' = Replay(stored)
    /\ exec' = [e \in Executors |-> NoExec]
    /\ seq' = [seq EXCEPT !["p0"] = SeqIdle]
    /\ inflight' = [inflight EXCEPT !.active = FALSE]
    /\ UNCHANGED <<nexus, task, poll>>
    /\ UNCHANGED <<storeVars, restVars, recVars, edgeVars>>

(***************************************************************************)
(* REST: delete of a nexus                                                 *)
(***************************************************************************)
RestNodes == {"n0", "n1"}
NoNode == "none"
\* the filters the REST handlers and other callers pass
Filters ==
    [kind : {"Nexus"}, node : {NoNode}, uuid : Nexuses]
        \cup [kind : {"NodeNexus"}, node : RestNodes, uuid : Nexuses]
        \cup [kind : {"Node"}, node : RestNodes, uuid : {"none"}]
NoFilter == [kind |-> "None", node |-> NoNode, uuid |-> "none"]
NoDestroy == [node |-> NoNode, uuid |-> "none"]
NoRest == [pc |-> "idle", filter |-> NoFilter, destroy |-> NoDestroy,
           ret |-> "none"]

\* MessageBus::get_nexus(filter): the nexus, or an error when there is none
get_nexus(uuid) ==
    IF nexusNode[uuid] # NoNode
    THEN [ok |-> TRUE, node |-> nexusNode[uuid]]
    ELSE [ok |-> FALSE, node |-> NoNode]

\* destroy_nexus up to client().destroy(..).await
RestDestroyNexus(filter) ==
    /\ rest.pc = "idle"
    /\ CASE filter.kind = "NodeNexus" ->
                rest' = [pc |-> "destroy", filter |-> filter,
                         destroy |-> [node |-> filter.node, uuid |-> filter.uuid],
                         ret |-> "none"]
         [] filter.kind = "Nexus" ->
                LET got == get_nexus(filter.uuid) IN
                IF got.ok
                THEN rest' = [pc |-> "destroy", filter |-> filter,
                              destroy |-> [node |-> got.node, uuid |-> filter.uuid],
                              ret |-> "none"]
                ELSE rest' = [pc |-> "done", filter |-> filter,
                              destroy |-> NoDestroy, ret |-> "NotFound"]
         [] OTHER ->
                rest' = [pc |-> "done", filter |-> filter,
                         destroy |-> NoDestroy, ret |-> "Internal"]
    /\ UNCHANGED nexusNode
    /\ UNCHANGED <<storeVars, seqVars, txnVars, recVars, edgeVars>>

\* client().destroy(&destroy, None).await?: the core agent destroys the nexus;
\* of a nexus that does not exist the destroy succeeds
RestDestroyCall(failed) ==
    /\ rest.pc = "destroy"
    /\ IF failed /\ nexusNode[rest.destroy.uuid] = rest.destroy.node
       THEN /\ rest' = [rest EXCEPT !.pc = "done", !.ret = "Failed"]
            /\ nexusNode' = nexusNode
       ELSE /\ rest' = [rest EXCEPT !.pc = "done", !.ret = "Ok"]
            /\ nexusNode' =
                IF nexusNode[rest.destroy.uuid] = rest.destroy.node
                THEN [nexusNode EXCEPT ![rest.destroy.uuid] = NoNode]
                ELSE nexusNode
    /\ UNCHANGED <<storeVars, seqVars, txnVars, recVars, edgeVars>>

\* the handler has returned
RestReturn ==
    /\ rest.pc = "done"
    /\ rest' = NoRest
    /\ UNCHANGED nexusNode
    /\ UNCHANGED <<storeVars, seqVars, txnVars, recVars, edgeVars>>

\* another caller creates a nexus (put_node_nexus)
RestPutNodeNexus(node, uuid) ==
    /\ nexusNode[uuid] = NoNode
    /\ nexusNode' = [nexusNode EXCEPT ![uuid] = node]
    /\ UNCHANGED rest
    /\ UNCHANGED <<storeVars, seqVars, txnVars, recVars, edgeVars>>

(***************************************************************************)
(* nexus_reconciler and its sub-reconcilers on one nexus                   *)
(***************************************************************************)
\* child URIs a nexus spec or a nexus state may carry
ChildUris == {"a", "b"}
Shares == {"None", "Nvmf", "Iscsi"}
NexusStatuses == {"Online", "Degraded", "Faulted"}
NodeStatuses == {"Online", "Offline", "NotFound"}
NoChild == "absent"

\* the order of the calls in nexus_reconciler, swapped
SubReconcilersSwapped ==
    <<"faulted_children_remover", "unknown_children_remover",
      "missing_nexus_recreate", "missing_children_remover",
      "fixup_nexus_protocol">>

\* the order of the calls in nexus_reconciler
SubReconcilers ==
    <<"faulted_children_remover", "unknown_children_remover",
      "missing_children_remover", "missing_nexus_recreate",
      "fixup_nexus_protocol">>

\* the sequences without repetition over a set of URIs
RECURSIVE SeqsOver(_)
SeqsOver(S) ==
    {<<>>} \cup UNION {{<<u>> \o q : q \in SeqsOver(S \ {u})} : u \in S}

SeqRange(q) == {q[i] : i \in 1..Len(q)}

\* Protocol::shared
shared(share) == share # "None"

\* NexusShareProtocol::try_from(Protocol)
NexusShareProtocolTryFrom(share) == share \in {"Nvmf", "Iscsi"}

\* the URIs of the children of the observed nexus
StateChildren == {u \in ChildUris : nstate.children[u] # NoChild}

NoNexusInfo == [some |-> FALSE, clean_shutdown |-> TRUE, no_healthy |-> FALSE]
NoNexusState ==
    [present |-> FALSE, status |-> "Online",
     children |-> [u \in ChildUris |-> NoChild], share |-> "None"]
NoLog ==
    [removals |-> {}, sched |-> "none", accessible |-> <<>>,
     replicas |-> <<>>, create |-> [issued |-> FALSE, children |-> <<>>],
     shares |-> <<>>, report |-> "none", destroy |-> FALSE,
     faulted |-> "none", calls |-> <<>>]
NoRec == [pc |-> "idle", ran |-> <<>>, results |-> <<>>, pass |-> 0,
          failed |-> FALSE]

\* a scheduler that answers One whenever a nexus info exists
GetHealthyChildrenAnyInfo(info, items) ==
    IF info.some
    THEN [kind |-> "One", info |-> info, candidates |-> items]
    ELSE [kind |-> "All", info |-> info, candidates |-> items]

\* get_healthy_children: One when the nexus info records an unclean
\* shutdown, All otherwise, each with everything the builder collected
get_healthy_children(info, items) ==
    IF info.some /\ ~info.clean_shutdown
    THEN [kind |-> "One", info |-> info, candidates |-> items]
    ELSE [kind |-> "All", info |-> info, candidates |-> items]

\* a faulted_children_remover that does not look at the nexus status
FaultedTargetsAnyStatus(state) ==
    {u \in ChildUris : state.children[u] = "Faulted"}

\* faulted_children_remover: the faulted children of a Degraded nexus with
\* more than one child
FaultedTargets(state) ==
    LET child_count == Cardinality({u \in ChildUris :
                                        state.children[u] # NoChild}) IN
    IF state.status = "Degraded" /\ child_count > 1
    THEN {u \in ChildUris : state.children[u] = "Faulted"}
    ELSE {}

\* an unknown_children_remover that finds nothing
UnknownTargetsNone(state, spec) == {}

\* unknown_children_remover: the children of the nexus no spec child matches
UnknownTargets(state, spec) ==
    {u \in ChildUris : state.children[u] # NoChild /\ u \notin spec.children}

\* a removal of unknown children that destroys them
UnknownDestroyEnabled == TRUE

\* unknown_children_remover: the destroy argument of remove_nexus_child_by_uri
UnknownDestroy == FALSE

\* a missing_children_remover that takes every spec child
MissingTargetsAll(state, spec) == spec.children

\* missing_children_remover: the spec children the nexus does not have
MissingTargets(state, spec) ==
    {u \in spec.children : state.children[u] = NoChild}

\* the sub-reconciler nexus_reconciler calls next
NextSub ==
    IF rec.pc = "run" /\ nspec.created /\ Len(rec.ran) < Len(SubReconcilers)
    THEN SubReconcilers[Len(rec.ran) + 1] ELSE "none"

\* results.push(..) of a sub-reconciler that has returned
RecPush(name, result, failed) ==
    rec' = [rec EXCEPT !.ran = Append(rec.ran, name),
                       !.results = Append(rec.results, result),
                       !.failed = rec.failed \/ failed]

\* remove_nexus_child_by_uri for each of the children in done: the child
\* leaves the nexus and the spec
RemoveChildren(done) ==
    /\ nstate' = [nstate EXCEPT !.children =
            [u \in ChildUris |-> IF u \in done THEN NoChild
                                 ELSE nstate.children[u]]]
    /\ nspec' = [nspec EXCEPT !.children = nspec.children \ done]

\* a registry lookup that answers with a nexus even when there is none
RegistryGetNexusAlwaysOk(state) == TRUE

\* context.registry().get_nexus(&nexus_uuid) is Ok: the nexus is in the
\* observed state
RegistryGetNexusOk(state) == state.present

\* a sub-reconciler that works on the snapshot taken when the pass began
SnapshotAtPassEntry(log) == 0

\* context.registry().get_nexus(..) at the top of a sub-reconciler: the
\* snapshot reflects every corrective call the pass has issued so far
SnapshotEpoch(log) == Len(log.calls)

\* the order in which a loop over children visits them
ChildOrder == <<"a", "b">>

\* one corrective call, with the snapshot it was decided on
CorrectiveCall(by, name, uri, snap) ==
    [by |-> by, call |-> name, uri |-> uri, snap |-> snap]

\* the remove_nexus_child_by_uri calls of one loop over the targets, all
\* handed the same &nexus_state
RemovalCalls(by, targets, snap) ==
    LET IsTarget(u) == u \in targets
        order == SelectSeq(ChildOrder, IsTarget) IN
    [i \in 1..Len(order) |-> CorrectiveCall(by, "remove", order[i], snap)]

\* the requests for removal a sub-reconciler issues
Requests(by, targets, destroy) ==
    {[by |-> by, uri |-> u, destroy |-> destroy] : u \in targets}

\* poll -> nexus_reconciler is entered for the nexus
RecPassStart ==
    /\ rec.pc \in {"idle", "done"}
    /\ rec.pass < MaxPasses
    /\ rec' = [rec EXCEPT !.pc = "run", !.ran = <<>>, !.results = <<>>,
                          !.pass = rec.pass + 1]
    /\ rlog' = NoLog
    /\ UNCHANGED <<nspec, nstate, nodeStatus, sched>>
    /\ UNCHANGED <<storeVars, seqVars, txnVars, restVars, edgeVars>>

\* faulted_children_remover
FaultedChildrenRemover(fails) ==
    /\ NextSub = "faulted_children_remover"
    /\ IF ~RegistryGetNexusOk(nstate)
       THEN /\ fails = {}
            /\ RecPush("faulted_children_remover", "Err", FALSE)
            /\ UNCHANGED <<nspec, nstate, rlog>>
       ELSE LET targets == FaultedTargets(nstate) IN
            /\ fails \subseteq targets
            /\ RemoveChildren(targets \ fails)
            /\ rlog' = [rlog EXCEPT
                    !.removals =
                        rlog.removals \cup Requests("faulted", targets, TRUE),
                    !.calls = rlog.calls \o
                        RemovalCalls("faulted_children_remover", targets,
                                     SnapshotEpoch(rlog))]
            /\ RecPush("faulted_children_remover", "Idle", fails # {})
    /\ UNCHANGED <<nodeStatus, sched>>
    /\ UNCHANGED <<storeVars, seqVars, txnVars, restVars, edgeVars>>

\* unknown_children_remover
UnknownChildrenRemover(fails) ==
    /\ NextSub = "unknown_children_remover"
    /\ IF ~RegistryGetNexusOk(nstate)
       THEN /\ fails = {}
            /\ RecPush("unknown_children_remover", "Err", FALSE)
            /\ UNCHANGED <<nspec, nstate, rlog>>
       ELSE LET targets == UnknownTargets(nstate, nspec) IN
            /\ fails \subseteq targets
            /\ RemoveChildren(targets \ fails)
            /\ rlog' = [rlog EXCEPT
                    !.removals = rlog.removals
                        \cup Requests("unknown", targets, UnknownDestroy),
                    !.calls = rlog.calls \o
                        RemovalCalls("unknown_children_remover", targets,
                                     SnapshotEpoch(rlog))]
            /\ RecPush("unknown_children_remover", "Idle", fails # {})
    /\ UNCHANGED <<nodeStatus, sched>>
    /\ UNCHANGED <<storeVars, seqVars, txnVars, restVars, edgeVars>>

\* missing_children_remover
MissingChildrenRemover(fails) ==
    /\ NextSub = "missing_children_remover"
    /\ IF ~RegistryGetNexusOk(nstate)
       THEN /\ fails = {}
            /\ RecPush("missing_children_remover", "Err", FALSE)
            /\ UNCHANGED <<nspec, nstate, rlog>>
       ELSE LET targets == MissingTargets(nstate, nspec) IN
            /\ fails \subseteq targets
            /\ RemoveChildren(targets \ fails)
            /\ rlog' = [rlog EXCEPT
                    !.removals =
                        rlog.removals \cup Requests("missing", targets, TRUE),
                    !.calls = rlog.calls \o
                        RemovalCalls("missing_children_remover", targets,
                                     SnapshotEpoch(rlog))]
            /\ RecPush("missing_children_remover",
                       IF fails # {} THEN "Err" ELSE "Idle", fails # {})
    /\ UNCHANGED <<nodeStatus, sched>>
    /\ UNCHANGED <<storeVars, seqVars, txnVars, restVars, edgeVars>>

\* a node that always counts as online
NodeAlwaysOnline(status) == TRUE

\* a node that never counts as online
NodeNeverOnline(status) == FALSE

\* get_node_wrapper(&nexus.node) is Ok and node.is_online()
NodeOnline(status) == status = "Online"

\* a recreate that goes ahead without children
NothingToCreateNever(children) == FALSE

\* missing_nexus_recreate: nexus.children.is_empty()
NothingToCreate(children) == children = <<>>

\* a choice that takes every replica whatever the scheduler said
ChosenChildrenAll(kind, nexus_replicas) == nexus_replicas

\* nexus.children = match children { One => first, All => nexus_replicas }
ChosenChildren(kind, nexus_replicas) ==
    IF kind = "One"
    THEN IF nexus_replicas = <<>> THEN <<>> ELSE <<Head(nexus_replicas)>>
    ELSE nexus_replicas

\* a recreate that assembles the children in the registry's spec
RecreateSpecInPlace(spec, chosen) ==
    [spec EXCEPT !.children = SeqRange(chosen)]

\* let nexus = nexus_spec.lock().clone(): the registry's spec after the
\* recreate worked on the copy
RecreateSpec(spec, chosen) == spec

\* the nexus node.create_nexus(&CreateNexus::from(&nexus)) brings up
CreatedNexus(chosen) ==
    [present |-> TRUE, status |-> "Online",
     children |-> [u \in ChildUris |->
                    IF u \in SeqRange(chosen) THEN "Online" ELSE NoChild],
     share |-> "None"]

\* missing_nexus_recreate
MissingNexusRecreate(schedOk, accFails, createOk) ==
    /\ NextSub = "missing_nexus_recreate"
    /\ IF RegistryGetNexusOk(nstate)
       THEN /\ schedOk /\ accFails = {} /\ createOk
            /\ RecPush("missing_nexus_recreate", "Idle", FALSE)
            /\ UNCHANGED <<nspec, nstate, rlog>>
       ELSE IF ~NodeOnline(nodeStatus)
       THEN /\ schedOk /\ accFails = {} /\ createOk
            /\ RecPush("missing_nexus_recreate", "Idle", FALSE)
            /\ rlog' = [rlog EXCEPT !.report = "node_not_online"]
            /\ UNCHANGED <<nspec, nstate>>
       ELSE IF ~schedOk
       THEN /\ accFails = {} /\ createOk
            /\ RecPush("missing_nexus_recreate", "Err", TRUE)
            /\ rlog' = [rlog EXCEPT !.sched = "Err"]
            /\ UNCHANGED <<nspec, nstate>>
       ELSE LET children == get_healthy_children(sched.info, sched.items)
                Accessible(u) == u \notin accFails
                nexus_replicas == SelectSeq(children.candidates, Accessible)
                chosen == ChosenChildren(children.kind, nexus_replicas)
                logged == [rlog EXCEPT !.sched = children.kind,
                                       !.accessible = children.candidates,
                                       !.replicas = nexus_replicas] IN
            /\ accFails \subseteq SeqRange(children.candidates)
            /\ nspec' = RecreateSpec(nspec, chosen)
            /\ IF NothingToCreate(chosen)
               THEN /\ createOk
                    /\ rlog' = [logged EXCEPT !.report =
                            IF children.info.some /\ children.info.no_healthy
                            THEN "no_healthy_replicas" ELSE "retry_later"]
                    /\ nstate' = nstate
                    /\ RecPush("missing_nexus_recreate", "Idle",
                               accFails # {})
               ELSE /\ rlog' = [logged EXCEPT
                            !.create = [issued |-> TRUE, children |-> chosen],
                            !.calls = Append(rlog.calls,
                                CorrectiveCall("missing_nexus_recreate",
                                    "create", "none", SnapshotEpoch(rlog)))]
                    /\ nstate' = IF createOk THEN CreatedNexus(chosen)
                                 ELSE nstate
                    /\ RecPush("missing_nexus_recreate",
                               IF createOk THEN "Idle" ELSE "Err",
                               accFails # {} \/ ~createOk)
    /\ UNCHANGED <<nodeStatus, sched>>
    /\ UNCHANGED <<storeVars, seqVars, txnVars, restVars, edgeVars>>

\* a fixup that unshares only to change between two protocols
NeedsUnshareBothShared(stateShare, specShare) ==
    shared(stateShare) /\ shared(specShare)

\* a fixup that never unshares
NeedsUnshareNever(stateShare, specShare) == FALSE

\* (nexus_state.share.shared() && nexus.share.shared()) || !nexus.share.shared()
NeedsUnshare(stateShare, specShare) ==
    (shared(stateShare) /\ shared(specShare)) \/ ~shared(specShare)

UnshareCall == [call |-> "unshare", protocol |-> "None"]
ShareCall(protocol) == [call |-> "share", protocol |-> protocol]

\* fixup_nexus_protocol
FixupNexusProtocol(unshareOk, shareOk) ==
    /\ NextSub = "fixup_nexus_protocol"
    /\ IF ~RegistryGetNexusOk(nstate) \/ nspec.share = nstate.share
       THEN /\ unshareOk /\ shareOk
            /\ RecPush("fixup_nexus_protocol", "Idle", FALSE)
            /\ UNCHANGED <<nstate, rlog>>
       ELSE LET unshare == NeedsUnshare(nstate.share, nspec.share)
                calls == IF unshare THEN <<UnshareCall>> ELSE <<>>
                snap == SnapshotEpoch(rlog)
                issued == IF unshare
                          THEN Append(rlog.calls,
                                CorrectiveCall("fixup_nexus_protocol",
                                               "unshare", "none", snap))
                          ELSE rlog.calls
                after == IF unshare THEN "None" ELSE nstate.share IN
            IF unshare /\ ~unshareOk
            THEN /\ shareOk
                 /\ rlog' = [rlog EXCEPT !.shares = calls, !.calls = issued]
                 /\ nstate' = nstate
                 /\ RecPush("fixup_nexus_protocol", "Err", TRUE)
            ELSE /\ unshareOk
                 /\ IF shared(nspec.share)
                        /\ NexusShareProtocolTryFrom(nspec.share)
                    THEN /\ rlog' = [rlog EXCEPT
                                !.shares = Append(calls, ShareCall(nspec.share)),
                                !.calls = Append(issued,
                                    CorrectiveCall("fixup_nexus_protocol",
                                                   "share", "none", snap))]
                         /\ nstate' = [nstate EXCEPT !.share =
                                IF shareOk THEN nspec.share ELSE after]
                         /\ RecPush("fixup_nexus_protocol",
                                    IF shareOk THEN "Idle" ELSE "Err",
                                    ~shareOk)
                    ELSE /\ shareOk
                         /\ rlog' = [rlog EXCEPT !.shares = calls,
                                                 !.calls = issued]
                         /\ nstate' = [nstate EXCEPT !.share = after]
                         /\ RecPush("fixup_nexus_protocol", "Idle", FALSE)
    /\ UNCHANGED <<nspec, nodeStatus, sched>>
    /\ UNCHANGED <<storeVars, seqVars, txnVars, restVars, edgeVars>>

\* nexus_reconciler returns squash_results(results)
RecPassEnd ==
    /\ rec.pc = "run"
    /\ NextSub = "none"
    /\ rec' = [rec EXCEPT !.pc = "done"]
    /\ UNCHANGED <<nspec, nstate, nodeStatus, sched, rlog>>
    /\ UNCHANGED <<storeVars, seqVars, txnVars, restVars, edgeVars>>

\* a faulted_nexus_remover that takes a nexus of any status
FaultedNexusAnyStatus(state) == TRUE

\* faulted_nexus_remover: nexus_state.status == NexusStatus::Faulted
FaultedNexus(state) == state.status = "Faulted"

\* the registry after node.destroy_nexus(..) succeeded: the nexus is gone
DestroyedNexus == NoNexusState

\* faulted_nexus_remover, run between two passes of nexus_reconciler
FaultedNexusRemover(schedOk, destroyOk) ==
    /\ rec.pc \in {"idle", "done"}
    /\ IF ~RegistryGetNexusOk(nstate) \/ ~FaultedNexus(nstate)
       THEN /\ schedOk /\ destroyOk
            /\ rlog' = [NoLog EXCEPT !.faulted = "Idle"]
            /\ nstate' = nstate
       ELSE IF ~schedOk
       THEN /\ destroyOk
            /\ rlog' = [NoLog EXCEPT !.sched = "Err", !.faulted = "Err"]
            /\ nstate' = nstate
       ELSE LET healthy_children ==
                    get_healthy_children(sched.info, sched.items)
                logged == [NoLog EXCEPT !.sched = healthy_children.kind] IN
            IF nodeStatus = "NotFound"
            THEN /\ destroyOk
                 /\ rlog' = [logged EXCEPT !.faulted = "Err"]
                 /\ nstate' = nstate
            ELSE IF NodeOnline(nodeStatus)
                    /\ healthy_children.candidates # <<>>
            THEN /\ rlog' = [logged EXCEPT !.destroy = TRUE,
                        !.faulted = IF destroyOk THEN "Idle" ELSE "Err"]
                 /\ nstate' = IF destroyOk THEN DestroyedNexus ELSE nstate
            ELSE /\ destroyOk
                 /\ rlog' = [logged EXCEPT !.faulted = "Idle"]
                 /\ nstate' = nstate
    /\ UNCHANGED <<nspec, nodeStatus, sched, rec>>
    /\ UNCHANGED <<storeVars, seqVars, txnVars, restVars, edgeVars>>


(***************************************************************************)
(* Watch on a key of the store                                             *)
(***************************************************************************)
\* most events of the watched key
MaxEvents == 3
\* most events etcd puts into one watch response
MaxBatch == 2

\* the events of a key: puts of two values, a put of a value that is not
\* JSON, a delete
WatchEventTypes == {"PutA", "PutB", "PutBad", "Delete"}

\* deserialise_kv: the Put event sent for a key-value pair, or the error
deserialise_kv(event) == IF event = "PutBad" THEN "Err" ELSE event

\* a watch task that goes on with the next event after a delete
WatchOnDeleteContinue == "continue"

\* EventType::Delete => { let _ = sender.send(..).await; return; }
WatchOnDelete == "return"

\* for event in response.events(): what is sent on the channel, and whether
\* the task returns
RECURSIVE WatchEvents(_, _)
WatchEvents(events, open) ==
    IF events = <<>> THEN [sent |-> <<>>, stop |-> FALSE]
    ELSE LET event == Head(events)
             more == WatchEvents(Tail(events), open) IN
         IF event = "Delete"
         THEN IF WatchOnDelete = "return"
              THEN [sent |-> IF open THEN <<"Delete">> ELSE <<>>,
                    stop |-> TRUE]
              ELSE [sent |-> (IF open THEN <<"Delete">> ELSE <<>>)
                                \o more.sent,
                    stop |-> more.stop]
         ELSE IF ~open THEN [sent |-> <<>>, stop |-> TRUE]
         ELSE [sent |-> <<deserialise_kv(event)>> \o more.sent,
               stop |-> more.stop]

\* the store applies a put or a delete to the watched key
WatchStoreEvent(event) ==
    /\ Len(whist) < MaxEvents
    /\ whist' = Append(whist, event)
    /\ UNCHANGED <<wpacked, wresp, wchan, wopen, wpc>>
    /\ UNCHANGED <<coreVars, convVars, dpVars>>

\* etcd puts the next n events of the key on the watch stream as one response
WatchRespond(n) ==
    /\ wpc = "watching"
    /\ wpacked + n <= Len(whist)
    /\ wresp' = Append(wresp, SubSeq(whist, wpacked + 1, wpacked + n))
    /\ wpacked' = wpacked + n
    /\ UNCHANGED <<whist, wchan, wopen, wpc>>
    /\ UNCHANGED <<coreVars, convVars, dpVars>>

\* watch: stream.message() yields a response, whose events are sent on
\* the channel one after the other
WatchMessage ==
    /\ wpc = "watching"
    /\ wresp # <<>>
    /\ LET done == WatchEvents(Head(wresp), wopen) IN
        /\ wchan' = wchan \o done.sent
        /\ wpc' = IF done.stop THEN "stopped" ELSE "watching"
    /\ wresp' = Tail(wresp)
    /\ UNCHANGED <<whist, wpacked, wopen>>
    /\ UNCHANGED <<coreVars, convVars, dpVars>>

\* watch: stream.message() yields None (stream cancelled) or an error
WatchStreamEnd ==
    /\ wpc = "watching"
    /\ wpc' = "stopped"
    /\ UNCHANGED <<whist, wpacked, wresp, wchan, wopen>>
    /\ UNCHANGED <<coreVars, convVars, dpVars>>

\* the receiver of the channel is dropped
WatchReceiverClosed ==
    /\ wopen
    /\ wopen' = FALSE
    /\ UNCHANGED <<whist, wpacked, wresp, wchan, wpc>>
    /\ UNCHANGED <<coreVars, convVars, dpVars>>

(***************************************************************************)
(* Conversions: ReplyError to RestError, Channel to and from its string    *)
(***************************************************************************)
ReplyErrorKinds ==
    {"WithMessage", "DeserializeReq", "Internal", "Timeout",
     "InvalidArgument", "DeadlineExceeded", "NotFound", "AlreadyExists",
     "PermissionDenied", "ResourceExhausted", "FailedPrecondition",
     "Aborted", "OutOfRange", "Unimplemented", "Unavailable",
     "Unauthenticated", "Unauthorized", "Conflict", "FailedPersist",
     "AlreadyShared", "NotShared", "NotPublished", "AlreadyPublished",
     "Deleting", "ReplicaCountAchieved", "ReplicaChangeCount",
     "ReplicaIncrease", "VolumeNoReplicas", "InUse", "ReplicaCreateNumber"}

\* the ReplyErrors converted: for each kind one, and those differing from it
\* in exactly one of resource, source, extra
ReplyErrors ==
    LET base == [resource |-> "Pool", source |-> "s", extra |-> ""] IN
    {e \in [kind : ReplyErrorKinds, resource : {"Pool", "Nexus"},
            source : {"s", "t"}, extra : {"", "x"}] :
        Cardinality({f \in {"resource", "source", "extra"} :
                        e[f] # base[f]}) <= 1}

\* a conversion that answers 500 whatever the kind
StatusOfKindInternal(kind) == 500

\* From<ReplyError> for RestError<RestJsonError>: the StatusCode of the match
StatusOfKind(kind) ==
    CASE kind \in {"WithMessage", "Internal"} -> 500
      [] kind \in {"DeserializeReq", "InvalidArgument"} -> 400
      [] kind = "Timeout" -> 408
      [] kind = "DeadlineExceeded" -> 504
      [] kind = "NotFound" -> 404
      [] kind = "AlreadyExists" -> 422
      [] kind \in {"PermissionDenied", "Unauthenticated", "Unauthorized"}
            -> 401
      [] kind \in {"ResourceExhausted", "FailedPersist"} -> 507
      [] kind \in {"FailedPrecondition", "AlreadyShared", "NotShared",
                   "NotPublished", "AlreadyPublished",
                   "ReplicaCountAchieved", "ReplicaChangeCount",
                   "ReplicaIncrease", "VolumeNoReplicas",
                   "ReplicaCreateNumber"} -> 412
      [] kind \in {"Aborted", "Unavailable"} -> 503
      [] kind = "OutOfRange" -> 416
      [] kind = "Unimplemented" -> 501
      [] kind \in {"Conflict", "Deleting", "InUse"} -> 409

\* From<ReplyError> for RestError<RestJsonError>: the Kind of the match
JsonKindOfKind(kind) ==
    CASE kind = "WithMessage" -> "Internal"
      [] kind = "DeserializeReq" -> "Deserialize"
      [] kind \in {"ReplicaCountAchieved", "ReplicaChangeCount",
                   "ReplicaIncrease", "VolumeNoReplicas",
                   "ReplicaCreateNumber"} -> "FailedPrecondition"
      [] OTHER -> kind

\* From<ReplyError> for RestError<RestJsonError>
RestErrorFrom(src) ==
    [status |-> StatusOfKind(src.kind),
     error |-> [details |-> src.extra, message |-> src.source,
                kind |-> JsonKindOfKind(src.kind)]]

NoReplyError ==
    [kind |-> "none", resource |-> "none", source |-> "none",
     extra |-> "none"]
NoRestError ==
    [status |-> 0,
     error |-> [details |-> "none", message |-> "none", kind |-> "none"]]

\* a ReplyError from the message bus is turned into the REST answer
ConvReplyError(src) ==
    /\ creply' = src
    /\ chttp' = RestErrorFrom(src)
    /\ UNCHANGED <<cchan, cwire, cparsed>>
    /\ UNCHANGED <<coreVars, watchVars, dpVars, grpcVars>>

\* the channels of version 0
ChannelVs == {"Default", "Registry", "Node", "Pool", "Nexus", "JsonGrpc"}

\* ChannelVs::to_string, as a sequence of characters
ChannelVsToString(c) ==
    CASE c = "Default" -> <<"d", "e", "f", "a", "u", "l", "t">>
      [] c = "Registry" -> <<"r", "e", "g", "i", "s", "t", "r", "y">>
      [] c = "Node" -> <<"n", "o", "d", "e">>
      [] c = "Pool" -> <<"p", "o", "o", "l">>
      [] c = "Nexus" -> <<"n", "e", "x", "u", "s">>
      [] c = "JsonGrpc" -> <<"j", "s", "o", "n", "G", "r", "p", "c">>

\* str::parse::<ChannelVs>
ChannelVsFromStr(source) ==
    IF \E c \in ChannelVs : ChannelVsToString(c) = source
    THEN [ok |-> TRUE,
          value |-> CHOOSE c \in ChannelVs : ChannelVsToString(c) = source]
    ELSE [ok |-> FALSE, value |-> "VariantNotFound"]

Channels == {[version |-> "v0", channel |-> c] : c \in ChannelVs}
NoChannel == [version |-> "none", channel |-> "none"]
NoParsed == [result |-> "none", value |-> NoChannel]

\* a to_string that leaves the version out
ChannelToStringBare(channel) == ChannelVsToString(channel.channel)

\* impl ToString for Channel: format!("v0/{}", channel.to_string())
ChannelToString(channel) ==
    <<"v", "0", "/">> \o ChannelVsToString(channel.channel)

\* source.split('/').next(): the characters before the first '/'
RECURSIVE SplitNext(_)
SplitNext(source) ==
    IF source = <<>> \/ Head(source) = "/" THEN <<>>
    ELSE <<Head(source)>> \o SplitNext(Tail(source))

\* impl FromStr for Channel: the slice source[version.len() + 1 ..] panics
\* past the end of the string
ChannelFromStr(source) ==
    LET version == SplitNext(source)
        start == Len(version) + 1 IN
    IF start > Len(source) THEN [result |-> "panic", value |-> NoChannel]
    ELSE LET c == ChannelVsFromStr(SubSeq(source, start + 1, Len(source))) IN
         IF c.ok
         THEN [result |-> "Ok",
               value |-> [version |-> "v0", channel |-> c.value]]
         ELSE [result |-> "Err", value |-> NoChannel]

\* strings on the wire that no Channel::to_string produced
ForeignWires ==
    {<<"p", "o", "o", "l">>, <<"v", "0">>, <<"v", "0", "/">>,
     <<"v", "1", "/", "p", "o", "o", "l">>, <<"/", "n", "o", "d", "e">>,
     <<"v", "0", "/", "x">>, <<>>}

\* a channel is written to the wire
ChannelSend(channel) ==
    /\ cchan' = channel
    /\ cwire' = ChannelToString(channel)
    /\ cparsed' = NoParsed
    /\ UNCHANGED <<creply, chttp>>
    /\ UNCHANGED <<coreVars, watchVars, dpVars, grpcVars>>

\* a string from elsewhere arrives on the wire
ChannelForeign(source) ==
    /\ cchan' = NoChannel
    /\ cwire' = source
    /\ cparsed' = NoParsed
    /\ UNCHANGED <<creply, chttp>>
    /\ UNCHANGED <<coreVars, watchVars, dpVars, grpcVars>>

\* the string on the wire is parsed
ChannelRecv ==
    /\ cparsed = NoParsed
    /\ cparsed' = ChannelFromStr(cwire)
    /\ UNCHANGED <<creply, chttp, cchan, cwire>>
    /\ UNCHANGED <<coreVars, watchVars, dpVars, grpcVars>>

(***************************************************************************)
(* ReplicaSpec to and from its gRPC message                                *)
(***************************************************************************)
\* store::replica::ReplicaOperation
ReplicaOperations == {"Create", "Destroy", "Share", "Unshare"}

\* Option<bool>: the result of a pending operation
OperationResults == {"None", "SomeTrue", "SomeFalse"}

\* ReplicaSpecStatus; Created carries the replica status
ReplicaSpecStatuses ==
    {[kind |-> k, sub |-> "none"] : k \in {"Creating", "Deleting", "Deleted"}}
        \cup {[kind |-> "Created", sub |-> r] : r \in {"Unknown", "Online"}}

ReplicaShares == {"None", "Nvmf"}

\* the ReplicaSpecs told apart by status, share and pending operation
ReplicaSpecs ==
    [status : ReplicaSpecStatuses, share : ReplicaShares,
     operation : {NoOperation} \cup
        [some : {TRUE}, operation : ReplicaOperations,
         result : OperationResults]]

\* common::SpecStatus as i32
SpecStatusAsI32(status) ==
    CASE status.kind = "Created" -> 0
      [] status.kind = "Creating" -> 1
      [] status.kind = "Deleted" -> 2
      [] status.kind = "Deleting" -> 3

\* common::SpecStatus::from_i32(..).map(Into::into): Created comes back with
\* the default replica status
SpecStatusFromI32(n) ==
    CASE n = 0 -> [some |-> TRUE, value |-> [kind |-> "Created", sub |-> "Unknown"]]
      [] n = 1 -> [some |-> TRUE, value |-> [kind |-> "Creating", sub |-> "none"]]
      [] n = 2 -> [some |-> TRUE, value |-> [kind |-> "Deleted", sub |-> "none"]]
      [] n = 3 -> [some |-> TRUE, value |-> [kind |-> "Deleting", sub |-> "none"]]
      [] OTHER -> [some |-> FALSE, value |-> [kind |-> "none", sub |-> "none"]]

\* common::Protocol as i32
ProtocolAsI32(share) == IF share = "None" THEN 0 ELSE 1

\* common::Protocol::from_i32
ProtocolFromI32(n) ==
    CASE n = 0 -> [some |-> TRUE, value |-> "None"]
      [] n = 1 -> [some |-> TRUE, value |-> "Nvmf"]
      [] OTHER -> [some |-> FALSE, value |-> "none"]

\* common::SpecOperation: the message has a result and no operation kind
NoSpecOperation == [some |-> FALSE, result |-> "None"]

NoReplicaSpec ==
    [status |-> [kind |-> "none", sub |-> "none"], share |-> "none",
     operation |-> NoOperation]
NoGrpcReplicaSpec ==
    [spec_status |-> 0 - 1, share |-> 0 - 1, owners |-> FALSE,
     operation |-> NoSpecOperation]
NoDecoded == [result |-> "none", value |-> NoReplicaSpec]

\* operation: ReplicaOperation::Create in TryFrom<replica::ReplicaSpec>
DecodedOperation(status) == "Create"

\* impl From<ReplicaSpec> for replica::ReplicaSpec
ReplicaSpecToGrpc(value) ==
    [spec_status |-> SpecStatusAsI32(value.status),
     share |-> ProtocolAsI32(value.share),
     owners |-> TRUE,
     operation |->
        IF value.operation.some
        THEN [some |-> TRUE, result |-> value.operation.result]
        ELSE NoSpecOperation]

\* impl TryFrom<replica::ReplicaSpec> for ReplicaSpec
ReplicaSpecTryFrom(value) ==
    LET replica_spec_status == SpecStatusFromI32(value.spec_status)
        share == ProtocolFromI32(value.share) IN
    IF ~replica_spec_status.some
    THEN [result |-> "InvalidArgument", value |-> NoReplicaSpec]
    ELSE IF ~share.some
    THEN [result |-> "InvalidArgument", value |-> NoReplicaSpec]
    ELSE IF ~value.owners
    THEN [result |-> "MissingArgument", value |-> NoReplicaSpec]
    ELSE [result |-> "Ok",
          value |->
            [status |-> replica_spec_status.value,
             share |-> share.value,
             operation |->
                IF value.operation.some
                THEN [some |-> TRUE,
                      operation |-> DecodedOperation(replica_spec_status.value),
                      result |-> value.operation.result]
                ELSE NoOperation]]

\* messages a peer may send that no ReplicaSpec of this build encodes to
ForeignGrpcReplicaSpecs ==
    [spec_status : {0, 7}, share : {0, 9}, owners : BOOLEAN,
     operation : {NoSpecOperation}]

\* a ReplicaSpec is converted into its message
GrpcSend(value) ==
    /\ gspec' = value
    /\ gmsg' = ReplicaSpecToGrpc(value)
    /\ gback' = NoDecoded
    /\ UNCHANGED <<creply, chttp, cchan, cwire, cparsed>>
    /\ UNCHANGED <<coreVars, watchVars, dpVars>>

\* a message from a peer arrives
GrpcForeign(value) ==
    /\ gspec' = NoReplicaSpec
    /\ gmsg' = value
    /\ gback' = NoDecoded
    /\ UNCHANGED <<creply, chttp, cchan, cwire, cparsed>>
    /\ UNCHANGED <<coreVars, watchVars, dpVars>>

\* the message is converted into a ReplicaSpec
GrpcRecv ==
    /\ gmsg # NoGrpcReplicaSpec
    /\ gback = NoDecoded
    /\ gback' = ReplicaSpecTryFrom(gmsg)
    /\ UNCHANGED <<gspec, gmsg>>
    /\ UNCHANGED <<creply, chttp, cchan, cwire, cparsed>>
    /\ UNCHANGED <<coreVars, watchVars, dpVars>>

(***************************************************************************)
(* Disk pool operator: reconcile of one DiskPool CR                          *)
(***************************************************************************)
\* OperatorContext.retries
Retries == 2
\* most resource versions of the CR
MaxVersion == 4
\* most increments of num_retries followed
MaxNumRetries == 3

\* DiskPoolStatus.state, None when the CR has no status yet
PoolStates == {"None", "Creating", "Created", "Online", "Unknown", "Error"}
\* get_node_block_devices: the disk is listed, is not listed, the call
\* failed; or device validation is disabled
DeviceAnswers == {"found", "missing", "error", "disabled"}
\* the answer of the control plane to a pools request: Ok with or without a
\* pool state, 404, 503 / 408 / no answer, 422, any other error
PoolAnswers ==
    {"ok_state", "ok_nostate", "not_found", "unavailable", "exists", "other"}

NoCr == [exists |-> FALSE, version |-> 0, state |-> "None",
         deleting |-> FALSE]
NoInventory == [some |-> FALSE, version |-> 0, state |-> "None",
                num_retries |-> 0]
NoReconcile ==
    [ran |-> FALSE, state |-> "None", num_retries |-> 0, calls |-> {},
     patched |-> FALSE, result |-> "none", requeue |-> FALSE, seen |-> 0]

\* an upsert that never counts
UpsertNoCount(inventory, cr) ==
    [some |-> TRUE, version |-> cr.version, state |-> cr.state,
     num_retries |-> 0]

\* OperatorContext::upsert: the ResourceContext reconcile works with, which
\* is also what the inventory holds afterwards
upsert(inventory, cr) ==
    IF inventory.some /\ inventory.version = cr.version
    THEN IF cr.state = "Online" THEN inventory
         ELSE [inventory EXCEPT !.num_retries = inventory.num_retries + 1]
    ELSE [some |-> TRUE, version |-> cr.version, state |-> cr.state,
          num_retries |-> 0]

\* an error_policy that requeues after every error
ErrorPolicyAlways(error) == TRUE

\* error_policy: requeue_after is None for ReconcileError alone
error_policy(error) == error # "ReconcileError"

\* patch_status: a patch that goes through sets the state; the resource
\* version moves when the status changed
PatchStatus(cr, state, ok) ==
    IF ok /\ cr.exists
    THEN [cr EXCEPT !.state = state,
                    !.version = IF state = cr.state THEN cr.version
                                ELSE cr.version + 1]
    ELSE cr

\* what a function of ResourceContext leaves: the CR, its result, the
\* requeue_after of an Ok result, the pools requests made
Outcome(cr, result, requeue_after, calls, patched) ==
    [cr |-> cr, result |-> result, requeue_after |-> requeue_after,
     calls |-> calls, patched |-> patched]

\* a function that patches the status and returns Ok, or the Kube error
Patched(cr, state, ok, requeue_after, calls) ==
    IF ok /\ cr.exists
    THEN Outcome(PatchStatus(cr, state, ok), "Ok", requeue_after, calls, TRUE)
    ELSE Outcome(cr, "Kube", FALSE, calls, FALSE)

\* start, is_missing: patch to Creating
is_missing(cr, ok) == Patched(cr, "Creating", ok, FALSE, {})
\* mark_error: patch to Error
mark_error(cr, ok) == Patched(cr, "Error", ok, FALSE, {})
\* mark_unknown: patch to Unknown, come back after the interval
mark_unknown(cr, ok) == Patched(cr, "Unknown", ok, TRUE, {})

\* stop_reconciliation: mark_error().await?, then Err(ReconcileError)
stop_reconciliation(cr, ok) ==
    LET marked == mark_error(cr, ok) IN
    IF marked.result = "Ok"
    THEN [marked EXCEPT !.result = "ReconcileError"]
    ELSE marked

\* set_status_or_unknown: with a pool state the status is patched, errors
\* of the patch ignored, and the check is rescheduled
set_status_or_unknown(cr, self, answer, ok) ==
    IF answer = "ok_state"
    THEN IF self.state # "None"
         THEN Outcome(PatchStatus(cr, "Online", ok), "Ok", TRUE, {},
                      ok /\ cr.exists)
         ELSE Outcome(cr, "Ok", TRUE, {}, FALSE)
    ELSE mark_unknown(cr, ok)

\* a create_or_import that never gives up
RetriesExceededNever(self) == FALSE

\* create_or_import: self.num_retries >= self.ctx.retries
RetriesExceeded(self) == self.num_retries >= Retries

\* create_or_import
create_or_import(cr, self, device, answer, ok) ==
    IF RetriesExceeded(self) THEN stop_reconciliation(cr, ok)
    ELSE IF device = "missing"
    THEN Outcome(cr, "SpecError", FALSE, {}, FALSE)
    ELSE IF device = "error"
    THEN IF answer \in {"ok_state", "ok_nostate"}
         THEN set_status_or_unknown(cr, self, answer, ok)
         ELSE IF answer = "unavailable" THEN mark_unknown(cr, ok)
         ELSE mark_error(cr, ok)
    ELSE IF answer \in {"ok_state", "ok_nostate", "exists"}
    THEN Patched(cr, "Created", ok, FALSE, {"put_node_pool"})
    ELSE Outcome(cr, "Response", FALSE, {"put_node_pool"}, FALSE)

\* online_pool
online_pool(cr, answer, ok) ==
    IF answer = "ok_state" THEN Patched(cr, "Online", ok, FALSE, {})
    ELSE IF answer = "ok_nostate" THEN Outcome(cr, "Ok", TRUE, {}, FALSE)
    ELSE Outcome(cr, "Response", FALSE, {}, FALSE)

\* a pool_check that takes a pool the control plane does not know for one
\* still to be created
deleted_by_external_event_missing(cr, ok) == is_missing(cr, ok)

\* pool_check on 404 without a deletion timestamp: "deleted by external
\* event NOT recreating", self.mark_error().await
deleted_by_external_event(cr, ok) == mark_error(cr, ok)

\* pool_check
pool_check(cr, self, answer, ok) ==
    IF answer \in {"ok_state", "ok_nostate"}
    THEN set_status_or_unknown(cr, self, answer, ok)
    ELSE IF answer = "not_found"
    THEN IF cr.deleting \/ ~cr.exists
         THEN Outcome(cr, "Ok", FALSE, {}, FALSE)
         ELSE deleted_by_external_event(cr, ok)
    ELSE IF answer = "unavailable" THEN mark_unknown(cr, ok)
    ELSE is_missing(cr, ok)

\* a delete_pool that takes no CR for errored
InErrorStateNever(self) == FALSE

\* delete_pool: matches!(self.status, Some(DiskPoolStatus { state: Error, .. }))
InErrorState(self) == self.state = "Error"

\* finalizer with Event::Cleanup -> delete_finalizer: delete_pool skips the
\* request for a pool in the Error state; when it returns Ok the CR leaves
\* the inventory and, its finalizer removed, the API server
delete_finalizer(cr, self, answer) ==
    IF InErrorState(self) THEN [ok |-> TRUE, calls |-> {}]
    ELSE [ok |-> answer \in {"ok_state", "ok_nostate"},
          calls |-> {"del_node_pool"}]

\* reconcile: upsert, finalizer, then the function the status selects;
\* an error goes through error_policy
DpReconcile(device, answer, cleanup, ok) ==
    /\ dcr.exists
    /\ ~dop.ran \/ dop.requeue \/ dop.seen # dcr.version
    /\ dcr.version < MaxVersion
    /\ dinv.num_retries < MaxNumRetries
    /\ LET self == upsert(dinv, dcr)
           final == IF dcr.deleting THEN delete_finalizer(dcr, self, cleanup)
                    ELSE [ok |-> FALSE, calls |-> {}]
           gone == dcr.deleting /\ final.ok
           cr == IF gone THEN [dcr EXCEPT !.exists = FALSE] ELSE dcr
           out == CASE self.state = "None" -> is_missing(cr, ok)
                    [] self.state = "Creating" ->
                            create_or_import(cr, self, device, answer, ok)
                    [] self.state = "Created" -> online_pool(cr, answer, ok)
                    [] self.state \in {"Online", "Unknown"} ->
                            pool_check(cr, self, answer, ok)
                    [] self.state = "Error" ->
                            Outcome(cr, "ReconcileError", FALSE, {}, FALSE)
       IN
        /\ cleanup = "ok_state" \/ dcr.deleting
        /\ dcr' = out.cr
        /\ dinv' = IF gone THEN NoInventory ELSE self
        /\ dop' = [ran |-> TRUE, state |-> self.state,
                   num_retries |-> self.num_retries,
                   calls |-> final.calls \cup out.calls,
                   patched |-> out.patched,
                   result |-> out.result,
                   requeue |-> IF out.result = "Ok" THEN out.requeue_after
                               ELSE error_policy(out.result),
                   seen |-> dcr.version]
    /\ UNCHANGED <<coreVars, watchVars, convVars>>

\* the CR is deleted by a user: the API server sets its deletion timestamp
DpDelete ==
    /\ dcr.exists /\ ~dcr.deleting
    /\ dcr.version < MaxVersion
    /\ dcr' = [dcr EXCEPT !.deleting = TRUE, !.version = dcr.version + 1]
    /\ UNCHANGED <<dinv, dop>>
    /\ UNCHANGED <<coreVars, watchVars, convVars>>

(***************************************************************************)
(* Initial states and specifications                                       *)
(***************************************************************************)
InitStoreVars ==
    /\ kv = [k \in Keys |-> NoVal]
    /\ lockLease = NoLease
    /\ leases = {}
    /\ nextLease = 1
    /\ owner = [l \in 1..(MaxLease + 1) |-> "nobody"]
    /\ leaseInfo = [c \in Clients |->
            IF c \in Writers THEN [NoInfo EXCEPT !.some = TRUE] ELSE NoInfo]
    /\ call = [c \in Clients |-> NoCall]
    /\ res = [c \in Clients |-> "none"]

InitSeqIdle ==
    /\ seq = [r \in Resources |-> SeqIdle]
    /\ nexus = [x \in Nexuses |->
            [managed |-> TRUE, owned |-> FALSE, created |-> TRUE]]
    /\ task = [t \in Tasks |-> NoTask]
    /\ poll = NoPoll

InitTxnIdle ==
    /\ pool = NoPool
    /\ stored = NoPool
    /\ exec = [e \in Executors |-> NoExec]
    /\ inflight = NoInflight
    /\ boots = 0

InitRestIdle ==
    /\ nexusNode = [x \in Nexuses |-> NoNode]
    /\ rest = NoRest

InitRecIdle ==
    /\ nspec = [created |-> TRUE, children |-> {}, share |-> "None"]
    /\ nstate = NoNexusState
    /\ nodeStatus = "Online"
    /\ sched = [info |-> NoNexusInfo, items |-> <<>>]
    /\ rec = NoRec
    /\ rlog = NoLog

InitWatchIdle ==
    /\ whist = <<>>
    /\ wpacked = 0
    /\ wresp = <<>>
    /\ wchan = <<>>
    /\ wopen = TRUE
    /\ wpc = "watching"

InitConvIdle ==
    /\ creply = NoReplyError
    /\ chttp = NoRestError
    /\ cchan = NoChannel
    /\ cwire = <<>>
    /\ cparsed = NoParsed
    /\ gspec = NoReplicaSpec
    /\ gmsg = NoGrpcReplicaSpec
    /\ gback = NoDecoded

InitDpIdle ==
    /\ dcr = NoCr
    /\ dinv = NoInventory
    /\ dop = NoReconcile

InitEdgeIdle == InitWatchIdle /\ InitConvIdle /\ InitDpIdle

\* the store with its writers; nothing else moves
InitStore == InitStoreVars /\ InitSeqIdle /\ InitTxnIdle /\ InitRestIdle /\ InitEdgeIdle /\ InitRecIdle

NextStore ==
    \/ \E c \in Clients, op \in StoreOps, k \in Keys : StoreCall(c, op, k)
    \/ \E c \in Writers : StoreTxn(c)
    \/ \E w \in Writers : LeaseStart(w)
    \/ \E l \in 1..MaxLease : LeaseExpire(l)
    \/ \E w \in Writers : KeepAliveLost(w)
    \/ \E w \in Writers : Revoke(w)

SpecStore == InitStore /\ [][NextStore]_vars


\* the sequencers with the tasks and the nexus reconciler; the nexus specs
\* are any the registry may hold
InitSeq ==
    /\ InitStoreVars
    /\ seq = [r \in Resources |-> SeqIdle]
    /\ nexus \in [Nexuses -> NexusKinds]
    /\ task = [t \in Tasks |-> NoTask]
    /\ poll = NoPoll
    /\ InitTxnIdle
    /\ InitRestIdle /\ InitEdgeIdle
    /\ InitRecIdle

NextSeq ==
    \/ \E t \in Tasks, r \in Nexuses, m \in Modes : TaskAcquire(t, r, m)
    \/ \E t \in Tasks : TaskRelease(t)
    \/ PollStart
    \/ PollNext
    \/ ReconcileStepBegin
    \/ \E failed \in BOOLEAN : ReconcileStepEnd(failed)
    \/ PollReconciled
    \/ \E gc \in {"Idle", "Busy", "Err"} : PollTargets(gc)

SpecSeq == InitSeq /\ [][NextSeq]_vars

\* the SpecTransaction methods applied in any order to a PoolSpec built from
\* a CreatePool request
InitTxn ==
    /\ InitStoreVars /\ InitSeqIdle /\ InitRestIdle /\ InitEdgeIdle /\ InitRecIdle
    /\ pool \in {[exists |-> TRUE, spec |-> PoolSpecFrom(request)] :
                    request \in CreatePoolRequests}
    /\ stored = NoPool
    /\ exec = [e \in Executors |-> NoExec]
    /\ inflight = NoInflight
    /\ boots = 0

NextTxn ==
    \/ \E operation \in PoolOperation : TxnStartOp(operation)
    \/ \E result \in BOOLEAN : TxnSetOpResult(result)
    \/ TxnCommitOp
    \/ TxnClearOp

SpecTxn == InitTxn /\ [][NextTxn]_vars

\* the executor serving create and destroy requests for pool p0, with crashes
InitExec == InitStoreVars /\ InitSeqIdle /\ InitTxnIdle /\ InitRestIdle /\ InitEdgeIdle /\ InitRecIdle

NextExec ==
    \/ \E e \in Executors, request \in ExecRequests : ExecCreate(e, request)
    \/ \E e \in Executors : ExecDestroy(e)
    \/ \E e \in Executors, ok \in BOOLEAN : ExecCall(e, ok)
    \/ \E e \in Executors : ExecDeadline(e)
    \/ \E e \in Executors, ok \in BOOLEAN : ExecCallDetached(e, ok)
    \/ \E e \in Executors : ExecComplete(e)
    \/ \E e \in Executors : ExecRemove(e)
    \/ CrashRestart

SpecExec == InitExec /\ [][NextExec]_vars

\* the REST handlers deleting nexuses while nexuses come and go
InitRest == InitStoreVars /\ InitSeqIdle /\ InitTxnIdle /\ InitRestIdle /\ InitEdgeIdle /\ InitRecIdle

NextRest ==
    \/ \E filter \in Filters : RestDestroyNexus(filter)
    \/ \E failed \in BOOLEAN : RestDestroyCall(failed)
    \/ RestReturn
    \/ \E node \in RestNodes, uuid \in Nexuses : RestPutNodeNexus(node, uuid)

SpecRest == InitRest /\ [][NextRest]_vars

\* the nexus infos the store may hold for the nexus
NexusInfos ==
    {NoNexusInfo}
        \cup [some : {TRUE}, clean_shutdown : BOOLEAN, no_healthy : BOOLEAN]

\* nexus_reconciler run pass after pass on one nexus, from any pair of spec
\* and observed state: either the nexus is there (its node Online, the
\* scheduler not consulted) or it is missing
InitRec ==
    /\ InitStoreVars /\ InitSeqIdle /\ InitTxnIdle /\ InitRestIdle /\ InitEdgeIdle
    /\ nspec \in [created : BOOLEAN, children : SUBSET ChildUris,
                   share : Shares]
    /\ \/ /\ nstate \in [present : {TRUE}, status : NexusStatuses,
                          children : [ChildUris -> {NoChild, "Online", "Faulted"}],
                          share : Shares]
          /\ nodeStatus = "Online"
          /\ sched = [info |-> NoNexusInfo, items |-> <<>>]
       \/ /\ nstate = NoNexusState
          /\ nodeStatus \in NodeStatuses
          /\ sched \in [info : NexusInfos, items : SeqsOver(nspec.children)]
    /\ rec = NoRec
    /\ rlog = NoLog

NextRec ==
    \/ RecPassStart
    \/ \E fails \in SUBSET ChildUris : FaultedChildrenRemover(fails)
    \/ \E fails \in SUBSET ChildUris : UnknownChildrenRemover(fails)
    \/ \E fails \in SUBSET ChildUris : MissingChildrenRemover(fails)
    \/ \E schedOk \in BOOLEAN, accFails \in SUBSET ChildUris,
            createOk \in BOOLEAN :
            MissingNexusRecreate(schedOk, accFails, createOk)
    \/ \E unshareOk \in BOOLEAN, shareOk \in BOOLEAN :
            FixupNexusProtocol(unshareOk, shareOk)
    \/ RecPassEnd

SpecRec == InitRec /\ [][NextRec]_vars

\* a builder that keeps the replicas whatever the nexus info says
BuilderCollectUnfiltered(spec, info) == SeqsOver(spec.children)

\* builder.collect(): the replicas of the spec left after those on offline
\* nodes and those the nexus info marks unhealthy are filtered out, in the
\* order the builder sorts them; none is left when the nexus info has no
\* healthy replica
BuilderCollect(spec, info) ==
    IF info.some /\ info.no_healthy THEN {<<>>}
    ELSE SeqsOver(spec.children)

\* nexus_reconciler on a missing nexus whose node is Online, the scheduler
\* answering with what the builder collects
InitSched ==
    /\ InitStoreVars /\ InitSeqIdle /\ InitTxnIdle /\ InitRestIdle /\ InitEdgeIdle
    /\ nspec \in [created : BOOLEAN, children : SUBSET ChildUris,
                   share : Shares]
    /\ nstate = NoNexusState
    /\ nodeStatus \in NodeStatuses
    /\ \E info \in NexusInfos :
          sched \in [info : {info}, items : BuilderCollect(nspec, info)]
    /\ rec = NoRec
    /\ rlog = NoLog

SpecSched == InitSched /\ [][NextRec]_vars

\* faulted_nexus_remover and nexus_reconciler taking turns on one unshared
\* nexus, from any spec children, observed nexus, node status and scheduler
\* answer
InitFaulted ==
    /\ InitStoreVars /\ InitSeqIdle /\ InitTxnIdle /\ InitRestIdle /\ InitEdgeIdle
    /\ nspec \in [created : BOOLEAN, children : SUBSET ChildUris,
                   share : {"None"}]
    /\ nstate \in {NoNexusState} \cup
            [present : {TRUE}, status : NexusStatuses,
             children : [ChildUris -> {NoChild, "Online", "Faulted"}],
             share : {nspec.share}]
    /\ nodeStatus \in NodeStatuses
    /\ sched \in [info : NexusInfos, items : SeqsOver(nspec.children)]
    /\ rec = NoRec
    /\ rlog = NoLog

NextFaulted ==
    \/ \E schedOk \in BOOLEAN, destroyOk \in BOOLEAN :
            FaultedNexusRemover(schedOk, destroyOk)
    \/ NextRec

SpecFaulted == InitFaulted /\ [][NextFaulted]_vars

\* a watch on one key while the store puts and deletes it
InitWatch ==
    /\ InitStoreVars /\ InitSeqIdle /\ InitTxnIdle /\ InitRestIdle
    /\ InitRecIdle /\ InitEdgeIdle

NextWatch ==
    \/ \E event \in WatchEventTypes : WatchStoreEvent(event)
    \/ \E n \in 1..MaxBatch : WatchRespond(n)
    \/ WatchMessage
    \/ WatchStreamEnd
    \/ WatchReceiverClosed

SpecWatch == InitWatch /\ [][NextWatch]_vars

\* reply errors turned into REST errors, channels written to and read from
\* the wire
InitConv ==
    /\ InitStoreVars /\ InitSeqIdle /\ InitTxnIdle /\ InitRestIdle
    /\ InitRecIdle /\ InitEdgeIdle

NextConv ==
    \/ \E src \in ReplyErrors : ConvReplyError(src)
    \/ \E channel \in Channels : ChannelSend(channel)
    \/ \E source \in ForeignWires : ChannelForeign(source)
    \/ ChannelRecv

SpecConv == InitConv /\ [][NextConv]_vars

\* ReplicaSpecs and peer messages converted one after the other
InitGrpc ==
    /\ InitStoreVars /\ InitSeqIdle /\ InitTxnIdle /\ InitRestIdle
    /\ InitRecIdle /\ InitEdgeIdle

NextGrpc ==
    \/ \E value \in ReplicaSpecs : GrpcSend(value)
    \/ \E value \in ForeignGrpcReplicaSpecs : GrpcForeign(value)
    \/ GrpcRecv

SpecGrpc == InitGrpc /\ [][NextGrpc]_vars

\* the disk pool operator reconciling one CR, found in any state when the
\* operator starts
InitDp ==
    /\ InitStoreVars /\ InitSeqIdle /\ InitTxnIdle /\ InitRestIdle
    /\ InitRecIdle /\ InitWatchIdle /\ InitConvIdle
    /\ dcr \in [exists : {TRUE}, version : {1}, state : PoolStates,
                deleting : {FALSE}]
    /\ dinv = NoInventory
    /\ dop = NoReconcile

NextDp ==
    \/ \E device \in DeviceAnswers, answer \in PoolAnswers,
            cleanup \in PoolAnswers, ok \in BOOLEAN :
            DpReconcile(device, answer, cleanup, ok)
    \/ DpDelete

SpecDp == InitDp /\ [][NextDp]_vars

(***************************************************************************)
(* Claims                                                                  *)
(***************************************************************************)
\* the step in which the transaction of writer w is decided and its call returns
TxnStep(w) == call[w].pc = "txn" /\ call'[w].pc = "idle"

\* C1: single-writer fencing. A put_kv, put_obj or delete_kv of a leased
\* writer commits (changes a key, or returns Ok) only while the lock key is
\* attached to the lease id the writer holds, a lease that is alive and was
\* granted to that writer; a writer whose lease is revoked, or whose lock key
\* is held under another lease, changes no key.
C1_SingleWriterFencing ==
    [][\A w \in Writers :
        (TxnStep(w) /\ (kv' # kv \/ res'[w] = "Ok"))
            => /\ lockLease # NoLease
               /\ call[w].lease = lockLease
               /\ lockLease \in leases
               /\ owner[lockLease] = w]_vars

\* C1 witness: w2 has committed a write under its lease after w1 lost its own,
\* and a write of w1 was fenced off
C1_Witness ==
    /\ kv["k1"] = "w2"
    /\ res["w1"] = "FailedLock"
    /\ leaseInfo["w1"].some /\ leaseInfo["w1"].id \notin leases
    /\ lockLease # NoLease /\ owner[lockLease] = "w2"

\* C2: with a lease-lock pair active each of put_kv, put_obj and delete_kv is
\* one transaction guarded by lease(lock_key) == lease_id: when the comparison
\* fails the call returns FailedLock and no stored value changes; when it
\* holds the key is written (deleted) and the call returns Ok.
C2_ConditionalWrite ==
    [][\A w \in Writers :
        TxnStep(w) =>
            IF lockLease = call[w].lease
            THEN /\ res'[w] = "Ok"
                 /\ kv'[call[w].key] =
                        (IF call[w].op = "delete_kv" THEN NoVal ELSE w)
                 /\ \A k \in Keys \ {call[w].key} : kv'[k] = kv[k]
            ELSE /\ res'[w] = "FailedLock"
                 /\ kv' = kv]_vars

\* C2 witness: one writer's transaction failed its comparison while the key it
\* aimed at keeps the other writer's value
C2_Witness ==
    /\ res["w2"] = "FailedLock"
    /\ res["w1"] = "Ok"
    /\ kv["k2"] = "w1"

\* C3 as stated: a put_obj in flight when its lease is revoked returns NotReady
C3_InFlightReturnsNotReady ==
    [][\A w \in Writers :
        (TxnStep(w) /\ call[w].op = "put_obj" /\ call[w].lease \notin leases)
            => res'[w] = "NotReady"]_vars

\* C3 amended: a put_obj (or put_kv, delete_kv) in flight when its lease is
\* revoked fails its comparison and returns FailedLock, changing no key; a
\* later mutating call returns NotReady once the lease keeper has marked the
\* lease inactive and is never sent to etcd until a new lease is acquired.
C3_LeaseLoss ==
    [][\A w \in Writers :
        /\ (TxnStep(w) /\ call[w].lease \notin leases)
            => (res'[w] = "FailedLock" /\ kv' = kv)
        /\ (call[w].pc = "idle" /\ leaseInfo[w].some /\ ~leaseInfo[w].active)
            => /\ call'[w].pc = "idle"
               /\ res'[w] \in {res[w], "NotReady"}
               /\ (res'[w] # res[w] => kv' = kv)]_vars

\* C3 witness: after the lease loss one writer got FailedLock for the call in
\* flight, a later call of an inactive writer got NotReady, nothing was stored
C3_Witness ==
    /\ res["w1"] = "NotReady"
    /\ ~leaseInfo["w1"].active /\ leaseInfo["w1"].some
    /\ res["w2"] = "FailedLock"
    /\ \A k \in Keys : kv[k] = NoVal

\* the holders of resource r in Exclusive or ReconcileStart mode
StrongHolders(r) ==
    {t \in Tasks : /\ task[t].pc = "holding"
                   /\ task[t].r = r
                   /\ task[t].mode \in {"Exclusive", "ReconcileStart"}}
        \cup (IF poll.guard = r THEN {"poll"} ELSE {})

\* C4: sequencer exclusion. For every resource there are never two
\* simultaneous holders in Exclusive and/or ReconcileStart mode, whatever the
\* interleaving of acquire and release by tasks and the nexus reconciler.
C4_SequencerExclusion ==
    \A r \in Resources : Cardinality(StrongHolders(r)) <= 1

\* C4 witness: the reconciler holds ReconcileStart on x1 while a writer holds
\* Exclusive on x2 and another task was refused
C4_Witness ==
    /\ poll.guard = "x1"
    /\ task["t1"].pc = "holding" /\ task["t1"].r = "x2"
    /\ task["t1"].mode = "Exclusive"
    /\ task["t2"].ret = "Busy"

\* the step in which the poll asks for the guard of a nexus it reconciles
PollAsks(x) ==
    /\ poll.pc = "loop"
    /\ poll.idx <= Len(NexusList)
    /\ NexusList[poll.idx] = x
    /\ nexus[x].managed /\ ~nexus[x].owned
    /\ poll' # poll

\* C5: acquisition never blocks or queues. A request the matrix disallows
\* returns Busy at once and leaves the sequencer unchanged (a task is only
\* ever granted what the matrix allows); releasing the sole holder returns
\* the sequencer to Idle and releasing one of n Shared holders decrements
\* the count.
C5_FailFast ==
    [][/\ \A t \in Tasks :
            /\ (task[t].pc = "idle" /\ task'[t].pc = "holding")
                => SeqAllowed(seq[task'[t].r], task'[t].mode, t)
            /\ (task[t].pc = "idle" /\ task'[t] # task[t]
                    /\ task'[t].pc = "idle")
                => (task'[t].ret = "Busy" /\ seq' = seq)
            /\ (task[t].pc = "holding" /\ task'[t].pc = "idle")
                => LET r == task[t].r IN
                   IF task[t].mode = "Shared" /\ seq[r].n > 1
                   THEN seq'[r].state = "Shared" /\ seq'[r].n = seq[r].n - 1
                   ELSE seq'[r] = SeqIdle
       /\ \A x \in Nexuses :
            (PollAsks(x) /\ ~SeqAllowed(seq[x], "ReconcileStart", "poll"))
                => (poll'.pc = "done" /\ poll'.ret = "Busy" /\ seq' = seq)
       /\ (poll.guard # "none" /\ poll'.guard = "none")
            => seq'[poll.guard] = SeqIdle]_vars

\* C5 witness: the poll returned Busy on a nexus held Shared, where of two
\* Shared holders one is left after the other released
C5_Witness ==
    /\ poll.pc = "done" /\ poll.ret = "Busy"
    /\ nexus["x1"].managed /\ ~nexus["x1"].owned
    /\ seq["x1"].state = "Shared" /\ seq["x1"].n = 1
    /\ task["t1"].pc = "holding" /\ task["t1"].r = "x1"
    /\ task["t2"].pc = "idle" /\ task["t2"].ret = "none"

\* the status a committed operation leads to
PostStatus(operation) ==
    IF operation = "Destroy" THEN Deleted ELSE CreatedOnline

\* C6: crash-safe mutations. A crash between any two of start_op, the
\* data-plane call, set_op_result, commit_op and clear_op, followed by the
\* startup replay, leaves the spec with no pending operation and either as it
\* was before the operation (result absent or false) or as the operation
\* leaves it (result true), in the registry and in the store alike.
C6_CrashSafe ==
    [][boots' # boots =>
        /\ pool' = stored'
        /\ pool'.exists = stored.exists
        /\ pool'.exists => pool'.spec.operation = NoOperation
        /\ inflight.active =>
            LET pre == inflight.pre
                post == [pre EXCEPT !.status = PostStatus(inflight.op)] IN
            /\ pool'.exists
            /\ pool'.spec \in {pre, post}
            /\ stored.spec.operation.some =>
                pool'.spec = (IF stored.spec.operation.result = "true"
                              THEN post ELSE pre)]_vars

\* C6 witness: the agent crashed with a destroy under way whose result true
\* was already recorded; the replay committed it
C6_Witness ==
    /\ boots = 1
    /\ ~inflight.active /\ inflight.op = "Destroy"
    /\ pool.exists /\ pool.spec.status = Deleted
    /\ pool.spec.operation = NoOperation
    /\ stored = pool

\* position of a status along Creating -> Created -> Deleting -> Deleted
StatusRank(status) ==
    CASE status.kind = "Creating" -> 0
      [] status.kind = "Created" -> 1
      [] status.kind = "Deleting" -> 2
      [] status.kind = "Deleted" -> 3

\* C7: over every sequence of start_op, set_op_result, commit_op and clear_op
\* the status of a spec only moves forward along Creating -> Created ->
\* Deleting -> Deleted; a spec that reached Deleted never returns to Created.
C7_StatusOnlyForward ==
    [][StatusRank(pool'.spec.status) >= StatusRank(pool.spec.status)]_vars

\* an executor task takes up a request
ExecSubmits(e) ==
    /\ exec[e].pc = "idle"
    /\ exec'[e] # exec[e]
    /\ boots' = boots

SameParameters(spec, request) ==
    /\ spec.node = request.node
    /\ spec.id = request.id
    /\ spec.disks = request.disks
    /\ spec.labels = request.labels

C10_DestroyMissingNexusOk ==
    [][(/\ rest.pc = "idle"
        /\ rest'.pc # "idle"
        /\ rest'.filter.kind = "Nexus"
        /\ nexusNode[rest'.filter.uuid] = NoNode)
            => ~(rest'.pc = "done" /\ rest'.ret # "Ok")]_vars

\* the observed nexus matches the spec: it is there, with the children and
\* the share of the spec
Converged ==
    /\ nstate.present
    /\ StateChildren = nspec.children
    /\ nstate.share = nspec.share

\* a reconcile pass has ended, none of its calls or of the earlier ones failed
PassesDone(n) ==
    /\ nspec.created
    /\ rec.pc = "done"
    /\ rec.pass >= n
    /\ ~rec.failed

C12_SubReconcilerOrder ==
    LET order == <<"faulted_children_remover", "unknown_children_remover",
                   "missing_children_remover", "missing_nexus_recreate",
                   "fixup_nexus_protocol">> IN
    /\ Len(rec.ran) <= Len(order)
    /\ \A i \in 1..Len(rec.ran) : rec.ran[i] = order[i]
    /\ Len(rec.results) = Len(rec.ran)
    /\ ~nspec.created => rec.ran = <<>>
    /\ (rec.pc = "done" /\ nspec.created) => Len(rec.ran) = Len(order)

\* C12 witness: a pass over a Created nexus has run the five sub-reconcilers
\* and the recreate among them failed
C12_Witness ==
    /\ rec.pc = "done" /\ nspec.created
    /\ Len(rec.ran) = 5
    /\ rec.results[4] = "Err" /\ rec.results[5] = "Idle"

\* the step in which the n-th sub-reconciler of a pass runs and returns
SubStep(n) ==
    /\ rec.pc = "run"
    /\ Len(rec.ran) = n - 1
    /\ Len(rec'.ran) = n

\* the removals requested in this step
NewRemovals == rlog'.removals \ rlog.removals

C15_MissingChildrenRemover ==
    [][SubStep(3) =>
        /\ NewRemovals =
            (IF nstate.present
             THEN {[by |-> "missing", uri |-> u, destroy |-> TRUE] :
                    u \in nspec.children \ StateChildren}
             ELSE {})
        /\ (nspec.children \cap StateChildren) \subseteq nspec'.children]_vars

\* C15 witness: spec child a, missing from the nexus, was requested to be
\* removed and left the spec; spec child b, present in the nexus, stays
C15_Witness ==
    /\ [by |-> "missing", uri |-> "a", destroy |-> TRUE] \in rlog.removals
    /\ nspec.children = {"b"}
    /\ nstate.present /\ nstate.children["b"] = "Online"
    /\ nstate.children["a"] = NoChild
    /\ Len(rec.ran) = 3

\* C16: missing-nexus recreate issues CreateNexus only if the nexus is
\* absent from the observed state and its node is Online; when the nexus is
\* present, or the node is not Online or not known, it issues no
\* CreateNexus, makes no replica accessible and returns Idle.
C16_RecreateOnlyIfMissingAndOnline ==
    [][SubStep(4) =>
        /\ rlog'.create.issued => (~nstate.present /\ nodeStatus = "Online")
        /\ (nstate.present \/ nodeStatus # "Online")
            => /\ ~rlog'.create.issued
               /\ rlog'.accessible = <<>>
               /\ rec'.results[4] = "Idle"
               /\ nstate' = nstate]_vars

\* C16 witness: the nexus is missing, its node Offline, the scheduler would
\* have candidates; the recreate returned Idle having issued nothing
C16_Witness ==
    /\ Len(rec.ran) = 4 /\ rec.results[4] = "Idle"
    /\ ~nstate.present /\ nodeStatus = "Offline"
    /\ sched.items # <<>>
    /\ ~rlog.create.issued /\ rlog.accessible = <<>>
    /\ rlog.report = "node_not_online"

\* C17 as stated: the CreateNexus issued after the scheduler returned One
\* carries exactly the scheduler's first candidate, after All it carries all
\* the candidates
C17_FirstCandidate ==
    [][(SubStep(4) /\ rlog'.create.issued) =>
        rlog'.create.children =
            (IF rlog'.sched = "One" THEN <<Head(sched.items)>>
             ELSE sched.items)]_vars

\* q is p with some of its elements left out
IsSubSeq(q, p) ==
    \E keep \in SUBSET SeqRange(p) :
        LET Kept(u) == u \in keep IN q = SelectSeq(p, Kept)

\* C17 amended: make_replica_accessible is tried on every candidate and the
\* candidates for which it failed are dropped; when the scheduler returned
\* One CreateNexus carries exactly the first of the remaining candidates,
\* when it returned All it carries all the remaining ones, and when none
\* remains no CreateNexus is issued.
C17_FirstAccessibleCandidate ==
    [][(SubStep(4) /\ rlog'.sched \in {"One", "All"}) =>
        /\ rlog'.sched = (IF sched.info.some /\ ~sched.info.clean_shutdown
                          THEN "One" ELSE "All")
        /\ rlog'.accessible = sched.items
        /\ IsSubSeq(rlog'.replicas, sched.items)
        /\ rlog'.create.issued = (rlog'.replicas # <<>>)
        /\ rlog'.create.issued =>
            rlog'.create.children =
                (IF rlog'.sched = "One" THEN <<Head(rlog'.replicas)>>
                 ELSE rlog'.replicas)]_vars

\* C17 witness: the scheduler returned One with candidates a, b; a could not
\* be made accessible and CreateNexus was issued with b alone
C17_Witness ==
    /\ Len(rec.ran) = 4
    /\ rlog.sched = "One"
    /\ rlog.accessible = <<"a", "b">>
    /\ rlog.replicas = <<"b">>
    /\ rlog.create.issued /\ rlog.create.children = <<"b">>

\* the recreate step on a Created spec whose nexus is missing, whose node is
\* Online and for which the scheduler has a candidate
RecreateDue ==
    /\ SubStep(4)
    /\ nspec.created
    /\ nodeStatus = "Online"
    /\ ~nstate.present
    /\ sched.items # <<>>

\* C18 as stated: with the spec Created, the node Online, the nexus absent
\* and a healthy candidate at hand, the pass issues CreateNexus
C18_RecreatedWithinOnePass ==
    [][RecreateDue => rlog'.create.issued]_vars

\* C18 amended: with the spec Created, the node Online, the nexus absent and
\* a candidate at hand, the pass consults the scheduler, tries to make every
\* candidate accessible and issues CreateNexus if the scheduler answers and
\* at least one candidate can be made accessible on the node, and then
\* the nexus is observed again when the call succeeds; if the scheduler
\* fails or no candidate can be made accessible nothing is issued and the
\* nexus stays missing until a later pass.
C18_RecreateWhenAccessible ==
    [][RecreateDue =>
        /\ rlog'.sched \in {"Err", "One", "All"}
        /\ rlog'.sched # "Err" => rlog'.accessible = sched.items
        /\ rlog'.create.issued =
            (rlog'.sched # "Err" /\ rlog'.replicas # <<>>)
        /\ rlog'.create.issued =>
            /\ SeqRange(rlog'.create.children) \subseteq SeqRange(sched.items)
            /\ nstate'.present = (rec'.results[4] = "Idle")
        /\ ~rlog'.create.issued => ~nstate'.present]_vars

\* C18 witness: in the first pass the missing nexus was recreated with both
\* candidates and is observed again
C18_Witness ==
    /\ rec.pass = 1 /\ Len(rec.ran) = 4
    /\ rec.results[4] = "Idle"
    /\ rlog.create.issued /\ rlog.create.children = <<"b", "a">>
    /\ nstate.present
    /\ nstate.children["a"] = "Online" /\ nstate.children["b"] = "Online"

\* C19: missing-nexus recreate never modifies the registry's nexus spec: its
\* children, status and share are the same after a recreate attempt,
\* successful or failed, as before; the children assembled for CreateNexus
\* exist only in the copy.
C19_RecreateLeavesSpec ==
    [][SubStep(4) => nspec' = nspec]_vars

\* C19 witness: CreateNexus was issued with child a alone and failed, the
\* spec still has both its children
C19_Witness ==
    /\ Len(rec.ran) = 4 /\ rec.results[4] = "Err"
    /\ rlog.create.issued /\ rlog.create.children = <<"a">>
    /\ nspec.children = {"a", "b"}

FaultedRemoverStep == rlog'.faulted # "none" /\ rec' = rec

\* C21: faulted_nexus_remover issues the destroy of the nexus exactly when
\* the observed nexus is Faulted, the scheduler answers with at least one
\* healthy candidate and the node of the nexus is Online; it leaves the
\* nexus spec as it was, so a Created spec stays Created.
C21_FaultedNexusRemover ==
    [][FaultedRemoverStep =>
        /\ rlog'.destroy =
            (/\ nstate.present /\ nstate.status = "Faulted"
             /\ rlog'.sched \in {"One", "All"} /\ sched.items # <<>>
             /\ nodeStatus = "Online")
        /\ ~rlog'.destroy => nstate' = nstate
        /\ nspec' = nspec]_vars

\* a Faulted nexus of a Created spec was destroyed and is now missing
C21_Witness ==
    /\ rlog.destroy /\ rlog.faulted = "Idle"
    /\ ~nstate.present /\ nspec.created
    /\ nodeStatus = "Online" /\ sched.items # <<>>

\* the step in which a caller of get_healthy_nexus_children got its answer
SchedulerAnswered ==
    /\ SubStep(4) \/ FaultedRemoverStep
    /\ rlog'.sched \in {"One", "All"}

\* C22: the healthy-children scheduler answers One exactly when a nexus info
\* record exists and its clean_shutdown is false, and All in every other
\* case (no record, or clean_shutdown true); the candidates handed to the
\* recreate are the ones the builder collected.
C22_OneIffUncleanShutdown ==
    [][SchedulerAnswered =>
        /\ (rlog'.sched = "One")
            = (sched.info.some /\ ~sched.info.clean_shutdown)
        /\ (rlog'.sched = "All")
            = (~sched.info.some \/ sched.info.clean_shutdown)
        /\ SubStep(4) => rlog'.accessible = sched.items]_vars

\* C22 witness: a nexus info with clean_shutdown false exists, the recreate
\* consulted the scheduler and was answered One with both candidates
C22_Witness ==
    /\ Len(rec.ran) = 4
    /\ sched.info.some /\ ~sched.info.clean_shutdown
    /\ rlog.sched = "One" /\ Len(rlog.accessible) = 2

\* C23 as stated: the scheduler hands at most one candidate to its caller
\* when the nexus info has clean_shutdown false, and none when the nexus
\* info has no healthy replica
C23_AtMostOneCandidate ==
    [][(SubStep(4) /\ rlog'.sched \in {"One", "All"} /\ sched.info.some) =>
        /\ ~sched.info.clean_shutdown => Len(rlog'.accessible) <= 1
        /\ sched.info.no_healthy => rlog'.accessible = <<>>]_vars

\* C23 amended: when the nexus info has clean_shutdown false the scheduler
\* answers One, which may list several candidates, and the nexus is created
\* with at most one child; when the nexus info has no healthy replica the
\* scheduler lists no candidate and no nexus is created.
C23_SchedulerSafety ==
    [][(SubStep(4) /\ rlog'.sched \in {"One", "All"} /\ sched.info.some) =>
        /\ ~sched.info.clean_shutdown =>
            /\ rlog'.sched = "One"
            /\ Len(rlog'.create.children) <= 1
            /\ nstate'.present =>
                Cardinality({u \in ChildUris :
                                nstate'.children[u] # NoChild}) = 1
        /\ sched.info.no_healthy =>
            /\ rlog'.accessible = <<>>
            /\ ~rlog'.create.issued
            /\ ~nstate'.present]_vars

\* C23 witness: after an unclean shutdown the scheduler answered One with
\* candidates a and b, and the nexus was created with a alone
C23_Witness ==
    /\ Len(rec.ran) = 4
    /\ sched.info.some /\ ~sched.info.clean_shutdown
    /\ rlog.sched = "One" /\ rlog.accessible = <<"a", "b">>
    /\ rlog.create.issued /\ rlog.create.children = <<"a">>
    /\ nstate.present /\ nstate.children["b"] = NoChild

\* C24: poll asks for ReconcileStart on each managed nexus not owned by a
\* volume before it reconciles it: the nexus is reconciled, and corrective
\* calls are made on it, only under the guard just granted; when the guard
\* is refused poll returns Busy at once and the sequencer of the nexus is
\* left alone, so no corrective call is made for that nexus in this poll.
C24_PollGuardsBeforeReconcile ==
    [][/\ \A x \in Nexuses :
            /\ (PollAsks(x) /\ ~SeqAllowed(seq[x], "ReconcileStart", "poll"))
                => /\ poll'.pc = "done" /\ poll'.ret = "Busy"
                   /\ ~poll'.step /\ poll'.sub = 0
                   /\ seq' = seq
            /\ (PollAsks(x) /\ SeqAllowed(seq[x], "ReconcileStart", "poll"))
                => /\ poll'.pc = "reconcile" /\ poll'.guard = x
                   /\ seq'[x].state = "Reconciling" /\ seq'[x].opid = "poll"
       /\ (poll.pc # "reconcile" /\ poll'.pc = "reconcile")
            => \E x \in Nexuses : PollAsks(x)
       /\ (~poll.step /\ poll'.step)
            => /\ poll.pc = "reconcile"
               /\ nexus[poll.guard].managed /\ ~nexus[poll.guard].owned
               /\ seq[poll.guard].state = "Reconciling"
               /\ seq[poll.guard].opid = "poll"]_vars

\* C24 witness: poll reconciled nexus x1, was refused the guard of nexus x2,
\* which a task holds Exclusive, and returned Busy
C24_Witness ==
    /\ poll.pc = "done" /\ poll.ret = "Busy" /\ poll.idx = 2
    /\ nexus["x1"].managed /\ ~nexus["x1"].owned /\ nexus["x1"].created
    /\ nexus["x2"].managed /\ ~nexus["x2"].owned
    /\ seq["x2"].state = "Exclusive"
    /\ seq["x1"] = SeqIdle

\* C25: what a watch has sent on its channel is, event for event and in
\* store order, the beginning of the key's events at the store (a Put as
\* deserialise_kv renders it); a Delete is the last thing sent: the task has
\* stopped once it sent one, and nothing follows it on the channel.
C25_WatchUntilDelete ==
    /\ Len(wchan) <= Len(whist)
    /\ \A i \in 1..Len(wchan) : wchan[i] = deserialise_kv(whist[i])
    /\ \A i \in 1..Len(wchan) :
        wchan[i] = "Delete" => (i = Len(wchan) /\ wpc = "stopped")

\* C25 witness: the key was put, deleted and put again; the watch sent the
\* Put and the Delete and stopped, the second Put having reached it in the
\* same response as the Delete
C25_Witness ==
    /\ whist = <<"PutA", "Delete", "PutB">>
    /\ wpacked = 3 /\ wresp = <<>>
    /\ wchan = <<"PutA", "Delete">>
    /\ wpc = "stopped" /\ wopen

\* C26: every ReplyErrorKind is turned into one HTTP status, which the kind
\* alone decides: two errors of the same kind that differ in resource,
\* source or extra get the same status. NotFound gives 404, AlreadyExists
\* 422, FailedPrecondition 412, Conflict 409, DeadlineExceeded 504,
\* Unavailable 503, ResourceExhausted 507, ReplicaCountAchieved and
\* ReplicaChangeCount 412.
C26_StatusByKindAlone ==
    [][creply' # creply =>
        /\ chttp'.status \in 400..599
        /\ (creply'.kind = creply.kind) => (chttp'.status = chttp.status)
        /\ creply'.kind = "NotFound" => chttp'.status = 404
        /\ creply'.kind = "AlreadyExists" => chttp'.status = 422
        /\ creply'.kind = "FailedPrecondition" => chttp'.status = 412
        /\ creply'.kind = "Conflict" => chttp'.status = 409
        /\ creply'.kind = "DeadlineExceeded" => chttp'.status = 504
        /\ creply'.kind = "Unavailable" => chttp'.status = 503
        /\ creply'.kind = "ResourceExhausted" => chttp'.status = 507
        /\ creply'.kind \in {"ReplicaCountAchieved", "ReplicaChangeCount"}
            => chttp'.status = 412
        /\ chttp'.error.details = creply'.extra
        /\ chttp'.error.message = creply'.source]_vars

\* C26 witness: an AlreadyExists error about a nexus, with extra text, was
\* turned into 422
C26_Witness ==
    /\ creply.kind = "AlreadyExists" /\ creply.resource = "Nexus"
    /\ chttp.status = 422 /\ chttp.error.kind = "AlreadyExists"

\* C27: Channel::to_string writes the literal v0/ followed by the name of
\* the channel, and Channel::from_str of that string gives the channel back.
C27_ChannelRoundTrip ==
    /\ cchan # NoChannel =>
        /\ Len(cwire) > 3
        /\ SubSeq(cwire, 1, 3) = <<"v", "0", "/">>
        /\ SubSeq(cwire, 4, Len(cwire)) = ChannelVsToString(cchan.channel)
    /\ (cchan # NoChannel /\ cparsed # NoParsed) =>
        (cparsed.result = "Ok" /\ cparsed.value = cchan)

\* C27 witness: the channel v0(JsonGrpc) was written as v0/jsonGrpc and read
\* back
C27_Witness ==
    /\ cchan = [version |-> "v0", channel |-> "JsonGrpc"]
    /\ cwire = <<"v", "0", "/", "j", "s", "o", "n", "G", "r", "p", "c">>
    /\ cparsed = [result |-> "Ok", value |-> cchan]

\* C28: a PoolSpec built from a CreatePool request is Creating with no
\* pending operation; start_op records the operation with no result and
\* set_op_result its result, both leaving the status alone; commit_op of a
\* pending Create (its result set to true) leaves the spec Created(Online)
\* and commit_op of a pending Destroy leaves it Deleted, each with no
\* operation.
C28_PoolCreateLifecycle ==
    /\ pool.spec.status = Creating /\ pool.spec.operation = NoOperation
    /\ [][/\ \A operation \in PoolOperation : TxnStartOp(operation) =>
                /\ pool'.spec.operation =
                    [some |-> TRUE, operation |-> operation,
                     result |-> "None"]
                /\ pool'.spec.status = pool.spec.status
          /\ (TxnSetOpResult(TRUE) /\ pool.spec.operation.some) =>
                /\ pool'.spec.operation =
                    [pool.spec.operation EXCEPT !.result = "true"]
                /\ pool'.spec.status = pool.spec.status
          /\ (TxnCommitOp /\ pool.spec.operation.some
                /\ pool.spec.operation.operation = "Create") =>
                /\ pool'.spec.status = CreatedOnline
                /\ pool'.spec.operation = NoOperation
          /\ (TxnCommitOp /\ pool.spec.operation.some
                /\ pool.spec.operation.operation = "Destroy") =>
                /\ pool'.spec.status = Deleted
                /\ pool'.spec.operation = NoOperation]_vars

\* C28 witness: the spec built from a request is Created(Online) with no
\* operation, which only the commit of a Create brings about
C28_Witness ==
    /\ pool.exists
    /\ pool.spec.status = CreatedOnline
    /\ pool.spec.operation = NoOperation
    /\ pool.spec.node = "n0" /\ pool.spec.disks = "aio:///dev/null"

\* a step that is a reconcile of the CR
DpReconcileStep ==
    \E device \in DeviceAnswers, answer \in PoolAnswers,
       cleanup \in PoolAnswers, ok \in BOOLEAN :
        DpReconcile(device, answer, cleanup, ok)

\* C29 as stated: a reconcile of a Creating CR whose resource version the
\* inventory already holds counts one more retry; once the retries reach
\* the limit the reconcile sets the CR to Error, returns ReconcileError and
\* is not requeued; a reconcile of a CR in Error returns ReconcileError, is
\* not requeued and makes no pool create or delete request
C29_RetryLimit ==
    [][DpReconcileStep =>
        /\ (dcr.state = "Creating" /\ dinv.some
                /\ dinv.version = dcr.version)
            => dop'.num_retries = dinv.num_retries + 1
        /\ (dop'.state = "Creating" /\ dop'.num_retries >= Retries)
            => /\ dcr'.state = "Error"
               /\ dop'.result = "ReconcileError"
               /\ ~dop'.requeue
        /\ dop'.state = "Error"
            => /\ dop'.result = "ReconcileError"
               /\ ~dop'.requeue
               /\ dop'.calls = {}
               /\ dcr'.state = "Error"]_vars

\* C29 amended: as stated, except that at the retry limit the CR is set to
\* Error and ReconcileError returned only if the status patch goes through;
\* when the patch fails the CR stays Creating, the Kube error is returned
\* and the reconcile is requeued, so that the next pass, counting one more
\* retry, tries again. At the limit no pool create request is made.
C29_RetryLimitPatched ==
    [][DpReconcileStep =>
        /\ (dcr.state = "Creating" /\ dinv.some
                /\ dinv.version = dcr.version)
            => dop'.num_retries = dinv.num_retries + 1
        /\ (dop'.state = "Creating" /\ dop'.num_retries >= Retries)
            => /\ "put_node_pool" \notin dop'.calls
               /\ IF dop'.patched
                  THEN /\ dcr'.state = "Error"
                       /\ dop'.result = "ReconcileError"
                       /\ ~dop'.requeue
                  ELSE /\ dcr'.state = "Creating"
                       /\ dop'.result = "Kube"
                       /\ dop'.requeue
        /\ dop'.state = "Error"
            => /\ dop'.result = "ReconcileError"
               /\ ~dop'.requeue
               /\ dop'.calls = {}
               /\ dcr'.state = "Error"]_vars

\* C29 witness: the CR stayed Creating at one resource version while its
\* reconciles failed; the pass that counted the limit set it to Error and
\* returned ReconcileError, with no requeue
C29_Witness ==
    /\ dop.state = "Creating" /\ dop.num_retries = Retries
    /\ dop.result = "ReconcileError" /\ ~dop.requeue /\ dop.patched
    /\ dcr.state = "Error" /\ dcr.exists /\ ~dcr.deleting
    /\ dop.calls = {}

\* C30: missing-nexus recreate never issues CreateNexus without children.
\* When no child could be assembled, the scheduler having no candidate or
\* no candidate having been made accessible on the node, it issues no
\* CreateNexus and returns Idle with the nexus still missing, whether the
\* nexus info reports no healthy replica or not.
C30_NoCreateWithoutChildren ==
    [][SubStep(4) =>
        /\ rlog'.create.issued => rlog'.create.children # <<>>
        /\ (rlog'.sched \in {"One", "All"} /\ rlog'.replicas = <<>>)
            => /\ ~rlog'.create.issued
               /\ rec'.results[4] = "Idle"
               /\ nstate' = nstate
               /\ rlog'.report =
                    (IF sched.info.some /\ sched.info.no_healthy
                     THEN "no_healthy_replicas" ELSE "retry_later")
        /\ (~nstate.present /\ nstate'.present) => StateChildren' # {}]_vars

\* C30 witness: the scheduler had candidates a and b, neither could be made
\* accessible, the nexus info reports healthy replicas; the recreate
\* returned Idle without creating
C30_Witness ==
    /\ Len(rec.ran) = 4 /\ rec.results[4] = "Idle"
    /\ rlog.sched = "All" /\ Len(rlog.accessible) = 2
    /\ rlog.replicas = <<>>
    /\ ~rlog.create.issued /\ ~nstate.present
    /\ sched.info.some /\ ~sched.info.no_healthy
    /\ rlog.report = "retry_later"

\* C31: faulted-children remover. Whenever the faulted-children remover
\* removes a child from the nexus, at least one child that is not Faulted
\* remains in the nexus afterwards: it never removes every child.
C31_FaultedRemoverLeavesHealthy ==
    [][(SubStep(1) /\ nstate'.children # nstate.children) =>
        \E u \in ChildUris :
            nstate'.children[u] \notin {NoChild, "Faulted"}]_vars

\* C32 as stated: within one pass every corrective call (child removal,
\* unshare, share, create) is decided on a snapshot of the observed nexus
\* that was read after every earlier corrective call of the pass.
C32_NoCallOnStaleSnapshot ==
    \A i \in 1..Len(rlog.calls) : rlog.calls[i].snap = i - 1

\* C32 amended: within one pass every sub-reconciler decides its corrective
\* calls on a snapshot read after all corrective calls of the sub-reconcilers
\* before it; the calls of one sub-reconciler share the snapshot read at its
\* entry.
C32_SnapshotPerSubReconciler ==
    \A i \in 1..Len(rlog.calls) :
        rlog.calls[i].snap =
            Cardinality({j \in 1..(i - 1) :
                            rlog.calls[j].by # rlog.calls[i].by})

\* C32 witness: the missing-children remover removed a child and the share
\* fixup then issued unshare and share, both on the snapshot read after the
\* removal
C32_Witness ==
    /\ Len(rlog.calls) = 3
    /\ rlog.calls[1].by = "missing_children_remover"
    /\ rlog.calls[2].call = "unshare" /\ rlog.calls[2].snap = 1
    /\ rlog.calls[3].call = "share" /\ rlog.calls[3].snap = 1

\* C33: when the nexus is absent from the observed state, the faulted-,
\* unknown- and missing-children removers request no removal and leave the
\* spec as it is, the share-protocol fixup issues no call, and the pass still
\* runs all five sub-reconcilers, the missing-nexus recreate among them: with
\* the node Online it consults the scheduler.
C33_MissingNexusKeepsSpecChildren ==
    /\ []((rec.pc = "done" /\ nspec.created) => rec.ran = SubReconcilers)
    /\ [][(rec.pc = "run" /\ ~nstate.present) =>
            /\ (SubStep(1) \/ SubStep(2) \/ SubStep(3) \/ SubStep(5)) =>
                    /\ rlog' = rlog
                    /\ nspec' = nspec
                    /\ nstate' = nstate
            /\ (SubStep(4) /\ NodeOnline(nodeStatus)) =>
                    /\ rlog'.sched # "none"
                    /\ nspec'.children = nspec.children]_vars

\* C33 witness: a pass over a missing nexus has ended; the three removers
\* returned the lookup error, the recreate consulted the scheduler and
\* brought the nexus up with spec child a, and the spec still has both
\* children
C33_Witness ==
    /\ rec.pc = "done" /\ rec.pass = 1
    /\ Len(rec.results) = 5
    /\ rec.results[1] = "Err" /\ rec.results[2] = "Err"
    /\ rec.results[3] = "Err"
    /\ rlog.removals = {}
    /\ rlog.create.issued /\ rlog.create.children = <<"a">>
    /\ nspec.children = {"a", "b"}
    /\ nstate.present

\* the managed nexuses no volume owns, in the order poll visits them
RECURSIVE PollCandidates(_)
PollCandidates(i) ==
    IF i > Len(NexusList) THEN <<>>
    ELSE IF nexus[NexusList[i]].managed /\ ~nexus[NexusList[i]].owned
         THEN <<NexusList[i]>> \o PollCandidates(i + 1)
         ELSE PollCandidates(i + 1)

\* C34: when ReconcileStart is refused for a nexus, poll returns Busy in that
\* step whatever the nexuses reconciled before it returned (errors included);
\* the nexus and those after it are not reconciled and the garbage collector
\* is not polled in that poll. An error of a nexus_reconciler does not end
\* the loop: a poll that reaches the garbage collector has reconciled every
\* managed, unowned nexus, in order.
C34_BusyAbortsThePoll ==
    /\ [][\A x \in Nexuses :
            (PollAsks(x) /\ ~SeqAllowed(seq[x], "ReconcileStart", "poll"))
                => /\ poll'.pc = "done" /\ poll'.ret = "Busy"
                   /\ poll'.reconciled = poll.reconciled
                   /\ poll'.gc = "none"]_vars
    /\ [][poll.pc = "done" =>
            (poll' = poll \/ (poll'.pc = "loop" /\ poll'.reconciled = <<>>))]_vars
    /\ [][(poll.pc = "reconcile" /\ poll'.pc # "reconcile") =>
            /\ poll'.pc = "loop" /\ poll'.idx = poll.idx + 1
            /\ poll'.reconciled = Append(poll.reconciled, poll.guard)]_vars
    /\ []((poll.pc = "done" /\ poll.gc # "none") =>
            poll.reconciled = PollCandidates(1))

\* C34 witness: nexus x1 was reconciled with an error, the guard of x2 was
\* refused, and poll returned Busy without x2 and without the garbage
\* collector
C34_Witness ==
    /\ poll.pc = "done" /\ poll.ret = "Busy"
    /\ poll.err
    /\ poll.reconciled = <<"x1">>
    /\ poll.gc = "none"
    /\ nexus["x2"].managed /\ ~nexus["x2"].owned
    /\ seq["x2"].state # "Idle"

\* the nexuses whose sequencer poll holds a guard of
PollHolds == {x \in Nexuses : seq[x].opid = "poll"}

C36_UnshareOnly ==
    [][(SubStep(5) /\ nstate.present /\ nspec.share = "None"
            /\ nstate.share # "None") =>
        /\ Len(rlog'.shares) = 1
        /\ rlog'.shares[1].call = "unshare"
        /\ \A i \in 1..Len(rlog'.calls) : rlog'.calls[i].call # "share"
        /\ rec'.results[5] = "Idle" => nstate'.share = "None"]_vars

\* C36 witness: a nexus shared over Nvmf whose spec is unshared was
\* unshared by the one call of the fixup
C36_Witness ==
    /\ Len(rec.ran) = 5 /\ rec.results[5] = "Idle"
    /\ rlog.shares = <<[call |-> "unshare", protocol |-> "None"]>>
    /\ nspec.share = "None"
    /\ nstate.present /\ nstate.share = "None"
    /\ rec.pass = 1

\* C37: converting a ReplicaSpec to its gRPC message and back keeps the
\* pending operation: the spec that comes back has a pending operation
\* exactly when the original had one, of the same kind and with the same
\* result.
C37_OperationRoundTrip ==
    (gspec # NoReplicaSpec /\ gback # NoDecoded) =>
        /\ gback.result = "Ok"
        /\ gback.value.operation = gspec.operation

\* C38: a PoolSpec compares equal to a CreatePool request exactly when node,
\* id, disks and labels are equal, whatever the status of the spec and
\* whether or not an operation is pending on it.
C38_EqualByParameters ==
    pool.exists =>
        \A request \in CreatePoolRequests :
            PoolSpecEqCreatePool(pool.spec, request)
                <=> SameParameters(pool.spec, request)

\* C39: a reconcile of a CR in state Error makes no del_node_pool request
\* (and no other pools request); when the CR carries a deletion timestamp
\* the cleanup only discards it: the CR leaves the inventory and, its
\* finalizer removed, the API server.
C39_ErrorPoolNeverDeleted ==
    [][(DpReconcileStep /\ dcr.state = "Error") =>
        /\ dop'.calls = {}
        /\ dcr.deleting => (dinv' = NoInventory /\ ~dcr'.exists)]_vars

\* C39 witness: a CR in state Error was deleted by the user and reconciled:
\* no request was made, the inventory is empty and the CR is gone
C39_Witness ==
    /\ dop.ran /\ dop.state = "Error"
    /\ dop.calls = {}
    /\ dinv = NoInventory
    /\ ~dcr.exists /\ dcr.deleting /\ dcr.state = "Error"

\* a reconcile in which pool_check is answered NotFound for a CR without a
\* deletion timestamp, the status patch going through or not
NotFoundOnCheck(ok) ==
    /\ dcr.state \in {"Online", "Unknown"}
    /\ ~dcr.deleting
    /\ \E device \in DeviceAnswers, cleanup \in PoolAnswers :
            DpReconcile(device, "not_found", cleanup, ok)

\* C40 as stated: when pool_check is answered NotFound for a CR in state
\* Online or Unknown without a deletion timestamp, the CR is set to Error
\* and no pool create request is made, in that reconcile or in any later
\* one.
C40_DeletedPoolNotRecreated ==
    /\ [][\A ok \in BOOLEAN : NotFoundOnCheck(ok) =>
            /\ dcr'.state = "Error"
            /\ "put_node_pool" \notin dop'.calls]_vars
    /\ [][dcr.state = "Error" =>
            /\ dcr'.state = "Error"
            /\ "put_node_pool" \notin dop'.calls]_vars

\* C40 amended: on NotFound for such a CR no pool create request is made in
\* that reconcile; if the status patch goes through the CR is in state
\* Error, and from then on it stays in Error and no reconcile makes a pool
\* create request; if the patch fails the CR keeps its state, the Kube error
\* is returned and the reconcile is requeued.
C40_DeletedPoolNotRecreatedPatched ==
    /\ [][\A ok \in BOOLEAN : NotFoundOnCheck(ok) =>
            /\ "put_node_pool" \notin dop'.calls
            /\ IF ok
               THEN dcr'.state = "Error" /\ dop'.result = "Ok"
                    /\ ~dop'.requeue
               ELSE dcr'.state = dcr.state /\ dop'.result = "Kube"
                    /\ dop'.requeue]_vars
    /\ [][dcr.state = "Error" =>
            /\ dcr'.state = "Error"
            /\ "put_node_pool" \notin dop'.calls]_vars

\* C40 witness: an Online CR whose pool the control plane answered NotFound
\* for was set to Error and reconciled once more: ReconcileError, no request
C40_Witness ==
    /\ dcr.exists /\ dcr.state = "Error" /\ ~dcr.deleting
    /\ dcr.version = 2
    /\ dinv.some /\ dinv.state = "Error" /\ dinv.version = 2
    /\ dop.ran /\ dop.state = "Error" /\ dop.result = "ReconcileError"
    /\ dop.calls = {}

=============================================================================
